---- MODULE Spec2Model ----
(***************************************************************************)
(* Duplicate-image detection bot (DiscordDuplicateImageDetector).          *)
(* The repository holds four successive builds of the bot                  *)
(* (discord_duplicate_bot.py, _v2, _v3, _v4); a behaviour of this model is *)
(* a run of one of them, selected by `variant`.                            *)
(*                                                                         *)
(* Encoding of Python values:                                              *)
(*   None                      -> None (-1) for ids, hashes and timestamps *)
(*   perceptual hash           -> a natural number read as a bit vector    *)
(*   str(hash) / stored 'hash' -> sequence of hex digits (0..15); a digit  *)
(*                                outside 0..15 is a non-hex character     *)
(*   datetime                  -> ticks, TicksPerDay ticks to the day      *)
(*   'timestamp' string        -> the tick it encodes, BadTimestamp for a  *)
(*                                string isoparse() rejects                *)
(*   identifier "<id>-<name>"  -> <<id, name>>; a prefix that int() cannot *)
(*                                read is None                             *)
(*   dict (insertion ordered)  -> sequence of [identifier, hash_data]      *)
(***************************************************************************)
EXTENDS Integers, Sequences, FiniteSets, TLC

VARIABLES
    variant,    \* which build of the bot runs: 1, 2, 3 or 4
    cfg,        \* the server policy (server_configs[guild_id])
    platform,   \* how the platform answers each external action of the bot
    now,        \* wall clock, in ticks
    file,       \* the persisted store document hashes_<guild>.json
    cache,      \* active_hash_databases[guild_id] (build 4), or NoCache
    writable,   \* whether the store document can be written
    history,    \* messages of the guild's channels; the message id is the index
    inbox,      \* ids of delivered messages whose on_message has not run yet
    last_seen,  \* last_seen.json: time of the previous start-up, or None
    last,       \* what the last handler did (its decisions and reports)
    heap,       \* the store dicts in memory; a handler holds one by its index
    handlers,   \* on_message coroutines that run concurrently, one per message
    hash_file_locks,  \* per guild: the coroutine that holds the lock, 0 when free
    io,         \* per guild: file reads and writes in progress in the executor
    torn,       \* the store document on disk is truncated or partly written
    cache_ref,  \* index in heap of active_hash_databases[guild_id], 0 when absent
    config_file,     \* the guild's entry of server_configs.json, as found on disk
    server_configs,  \* the guild's entry of the configuration cache, or NoGuild
    config_last      \* what the last configuration operation did

\* the state of the coroutines that run step by step
taskvars == <<heap, handlers, hash_file_locks, io, torn, cache_ref>>

\* the configuration document, its cache and the last configuration operation
confvars == <<config_file, server_configs, config_last>>

vars == <<variant, cfg, platform, confvars, now, file, cache, writable, history, inbox, last_seen,
          last, taskvars>>

-----------------------------------------------------------------------------
(* Bounds of the model *)

MaxMsgs == 2          \* messages posted in one behaviour
MaxTime == 4          \* the clock stops here
TickStep == 3         \* ticks between two observations of the clock
HexDigits == 1        \* hex digits of an encoded hash
TicksPerDay == 2      \* clock resolution
MaxIo == 2            \* file operations of one guild the executor runs at once
MaxThreshold == 1     \* largest similarity_threshold tried
MaxDuration == 1      \* largest duplicate_check_duration_days tried
MaxLimit == 3         \* largest scan / catch-up limit tried

None == -1
BadTimestamp == -2
BadImage == -2
NoBytes == -3         \* an attachment whose download raises discord.HTTPException

Users == {1, 2}
Channels == {"c1", "c2"}    \* str(channel.id) of the guild's channels
Filenames == {"a", "b"}
Images == {0, 1, 3}        \* hashes dhash can return for the images posted
VALID_SCOPES == {"server", "channel"}
VALID_CHECK_MODES == {"strict", "owner_allowed"}
Variants == {1, 2, 3, 4}

NoCache == <<"NoCache">>

\* the external actions on a violating message whose outcome the platform
\* decides; the deletion of the message (delete_duplicates, False by default)
\* is taken to succeed where the policy enables it, and /scan is run with its
\* delete option left at False
ExternalActions == {"log", "reply", "react"}

\* the platform accepts every action
Permitted == [a \in ExternalActions |-> "ok"]

\* "forbidden": discord.Forbidden (missing permission); "error": NotFound or
\* another HTTPException (the message is gone)
\* the bot lacks no permission, the one to send or the one to add reactions
RefusingPlatformStates ==
    {Permitted,
     [Permitted EXCEPT !["reply"] = "forbidden"],
     [Permitted EXCEPT !["react"] = "forbidden"]}

PlatformStates ==
    {Permitted,
     [Permitted EXCEPT !["reply"] = "forbidden"],
     [Permitted EXCEPT !["react"] = "forbidden"],
     [Permitted EXCEPT !["reply"] = "error"],
     [Permitted EXCEPT !["log"] = "forbidden"]}
RootKey == "root"           \* the flat (server scope) level of the document
PartKeys == {RootKey} \cup Channels

-----------------------------------------------------------------------------
(* Perceptual hashes *)

RECURSIVE Pow(_, _)
Pow(b, n) == IF n = 0 THEN 1 ELSE b * Pow(b, n - 1)

\* str(imagehash): the hash as HexDigits hex digits, most significant first
hash_to_hex(h) == [i \in 1..HexDigits |-> (h \div Pow(16, HexDigits - i)) % 16]

RECURSIVE HexValue(_)
HexValue(s) == IF s = <<>> THEN 0
               ELSE 16 * HexValue(SubSeq(s, 1, Len(s) - 1)) + s[Len(s)]

\* imagehash.hex_to_hash: None stands for the ValueError / shape error that
\* makes the caller skip the record
hex_to_hash(s) ==
    IF Len(s) = HexDigits /\ \A i \in 1..Len(s) : s[i] \in 0..15
    THEN HexValue(s) ELSE None

RECURSIVE PopCount(_)
PopCount(n) == IF n = 0 THEN 0 ELSE (n % 2) + PopCount(n \div 2)

RECURSIVE Xor(_, _)
Xor(a, b) == IF a = 0 /\ b = 0 THEN 0
             ELSE (((a % 2) + (b % 2)) % 2) + 2 * Xor(a \div 2, b \div 2)

\* ImageHash.__sub__: number of differing bits
HashDistance(a, b) == PopCount(Xor(a, b))

\* calculate_hash_sync: None when the bytes are no image
calculate_hash_sync(img) == IF img = BadImage THEN None ELSE img

\* attachment.read() followed by calculate_hash inside the try of one
\* attachment: None when the caller goes on to the next attachment
read_and_hash(img) == IF img = NoBytes THEN None ELSE calculate_hash_sync(img)

-----------------------------------------------------------------------------
(* The fingerprint store *)

\* json value of one record: {"hash":..,"user_id":..,"timestamp":..} or a bare string
StructuredRecord(hash_str, user_id, timestamp) ==
    [kind |-> "dict", hash |-> hash_str, user_id |-> user_id, timestamp |-> timestamp]

LegacyRecord(hash_str) ==
    [kind |-> "str", hash |-> hash_str, user_id |-> None, timestamp |-> None]

MissingHash == <<>>         \* a dict without the 'hash' key

EmptyStore == [k \in PartKeys |-> <<>>]

\* f"{message.id}-{attachment.filename}"
MakeIdentifier(message_id, filename) == <<message_id, filename>>

\* int(identifier.split('-')[0]), None when that raises
ParseMessageId(identifier) == identifier[1]

\* variation: channel scope that pools the mappings of all channels
hashes_of_all_channels(stored_hashes_dict, scope, channel_id_str) ==
    IF scope = "server" THEN stored_hashes_dict[RootKey]
    ELSE IF scope = "channel" THEN stored_hashes_dict["c1"] \o stored_hashes_dict["c2"]
    ELSE <<>>

\* selection of the candidate pool by scope
hashes_to_check(stored_hashes_dict, scope, channel_id_str) ==
    IF scope = "server" THEN stored_hashes_dict[RootKey]
    ELSE IF scope = "channel" THEN stored_hashes_dict[channel_id_str]
    ELSE <<>>

RECURSIVE IndexOfKey(_, _, _)
IndexOfKey(d, key, i) ==
    IF i > Len(d) THEN 0
    ELSE IF d[i].identifier = key THEN i ELSE IndexOfKey(d, key, i + 1)

\* d[key] = value on an insertion-ordered dict
DictSet(d, key, value) ==
    LET i == IndexOfKey(d, key, 1)
        e == [identifier |-> key, hash_data |-> value]
    IN  IF i = 0 THEN Append(d, e) ELSE [d EXCEPT ![i] = e]

\* d.pop(key, None)
DictPop(d, key) == SelectSeq(d, LAMBDA e : e.identifier # key)

\* assignment into the scope's mapping of the whole document
StoreSet(stored, scope, channel_id_str, key, value) ==
    LET k == IF scope = "server" THEN RootKey ELSE channel_id_str
    IN  [stored EXCEPT ![k] = DictSet(@, key, value)]

StorePop(stored, scope, channel_id_str, key) ==
    LET k == IF scope = "server" THEN RootKey ELSE channel_id_str
    IN  [stored EXCEPT ![k] = DictPop(@, key)]

-----------------------------------------------------------------------------
(* Duplicate matcher *)

\* timedelta.days: whole days of a difference, rounded down
Days(delta) == delta \div TicksPerDay

\* the hash string the matcher reads from a record, MissingHash when it skips it
MatcherHashStr(hash_data) ==
    IF variant = 1
    THEN IF hash_data.kind = "dict" /\ hash_data.hash # MissingHash THEN hash_data.hash
         ELSE IF hash_data.kind = "str" THEN hash_data.hash ELSE MissingHash
    ELSE IF hash_data.kind \in {"dict", "str"} THEN hash_data.hash ELSE MissingHash

\* the time-window test of find_duplicates_sync: TRUE when the record stays a candidate
InWindow(hash_data, check_duration_days) ==
    LET timestamp_str == IF hash_data.kind = "dict" THEN hash_data.timestamp ELSE None
    IN  CASE variant = 1 -> TRUE
          [] variant = 2 ->
                IF check_duration_days > 0 /\ timestamp_str # None
                THEN IF timestamp_str = BadTimestamp THEN TRUE
                     ELSE ~(Days(now - timestamp_str) > check_duration_days)
                ELSE TRUE
          [] OTHER ->
                IF hash_data.kind = "str" /\ check_duration_days > 0 THEN FALSE
                ELSE IF check_duration_days > 0 /\ timestamp_str # None
                THEN IF timestamp_str = BadTimestamp THEN FALSE
                     ELSE ~(timestamp_str < now - check_duration_days * TicksPerDay)
                ELSE TRUE

\* variation: the threshold itself is excluded (distance < threshold)
IsCandidateBelow(e, new_image_hash, threshold, check_duration_days) ==
    LET s == MatcherHashStr(e.hash_data)
    IN  /\ s # MissingHash
        /\ InWindow(e.hash_data, check_duration_days)
        /\ hex_to_hash(s) # None
        /\ HashDistance(new_image_hash, hex_to_hash(s)) < threshold

IsCandidate(e, new_image_hash, threshold, check_duration_days) ==
    LET s == MatcherHashStr(e.hash_data)
    IN  /\ s # MissingHash
        /\ InWindow(e.hash_data, check_duration_days)
        /\ hex_to_hash(s) # None
        /\ HashDistance(new_image_hash, hex_to_hash(s)) <= threshold

\* variation: the author of the record is not copied into the match
MatchOfUnknownAuthor(e, new_image_hash) ==
    [identifier          |-> e.identifier,
     distance            |-> HashDistance(new_image_hash, hex_to_hash(e.hash_data.hash)),
     original_message_id |-> ParseMessageId(e.identifier),
     original_user_id    |-> None]

MatchOf(e, new_image_hash) ==
    [identifier          |-> e.identifier,
     distance            |-> HashDistance(new_image_hash, hex_to_hash(e.hash_data.hash)),
     original_message_id |-> ParseMessageId(e.identifier),
     original_user_id    |-> IF e.hash_data.kind = "dict" THEN e.hash_data.user_id ELSE None]

RECURSIVE MapMatches(_, _)
MapMatches(es, h) ==
    IF es = <<>> THEN <<>> ELSE <<MatchOf(Head(es), h)>> \o MapMatches(Tail(es), h)

\* variation: the matches stay in store order
KeepStoreOrder(ms, d) == ms

\* list.sort(key=distance): stable, ascending
RECURSIVE SortByDistance(_, _)
SortByDistance(ms, d) ==
    IF d > 4 * HexDigits THEN <<>>
    ELSE SelectSeq(ms, LAMBDA m : m.distance = d) \o SortByDistance(ms, d + 1)

\* the records of the pool in front of the first one whose hash cannot be read
RECURSIVE UpToUnreadable(_)
UpToUnreadable(pool) ==
    IF pool = <<>> THEN <<>>
    ELSE LET s == MatcherHashStr(Head(pool).hash_data)
         IN  IF s # MissingHash /\ hex_to_hash(s) = None THEN <<>>
             ELSE <<Head(pool)>> \o UpToUnreadable(Tail(pool))

\* variation: a record whose hash cannot be read ends the lookup
find_duplicates_aborting(new_image_hash, stored_hashes_dict, threshold, scope, channel_id_str, check_duration_days) ==
    IF new_image_hash = None THEN <<>>
    ELSE LET pool == UpToUnreadable(hashes_to_check(stored_hashes_dict, scope, channel_id_str))
             kept == SelectSeq(pool, LAMBDA e :
                        IsCandidate(e, new_image_hash, threshold, check_duration_days))
         IN  SortByDistance(MapMatches(kept, new_image_hash), 0)

find_duplicates_sync(new_image_hash, stored_hashes_dict, threshold, scope, channel_id_str, check_duration_days) ==
    IF new_image_hash = None THEN <<>>
    ELSE LET pool == hashes_to_check(stored_hashes_dict, scope, channel_id_str)
             kept == SelectSeq(pool, LAMBDA e :
                        IsCandidate(e, new_image_hash, threshold, check_duration_days))
         IN  SortByDistance(MapMatches(kept, new_image_hash), 0)

NoEntry == [identifier |-> <<None, "">>, hash_data |-> LegacyRecord(MissingHash)]

ProbeHit(e, target_hash, threshold) ==
    LET s == IF e.hash_data.kind \in {"dict", "str"} THEN e.hash_data.hash ELSE MissingHash
    IN  /\ s # MissingHash
        /\ hex_to_hash(s) # None
        /\ HashDistance(target_hash, hex_to_hash(s)) <= threshold

\* the first record of the scope within `threshold` of the hash, or NoEntry
find_existing_hash_entry_sync(target_hash, stored_hashes_dict, threshold, scope, channel_id_str) ==
    IF target_hash = None THEN NoEntry
    ELSE LET hits == SelectSeq(hashes_to_check(stored_hashes_dict, scope, channel_id_str),
                               LAMBDA e : ProbeHit(e, target_hash, threshold))
         IN  IF hits = <<>> THEN NoEntry ELSE Head(hits)

-----------------------------------------------------------------------------
(* Store document and its cache *)

\* load_hashes_sync: the document read from disk; a truncated or partly
\* written file raises JSONDecodeError and reads as {}
load_hashes_sync == IF torn THEN EmptyStore ELSE file

\* load_guild_hashes: the cached document when build 4 holds one, else the file
load_guild_hashes ==
    IF variant = 4 /\ cache # NoCache THEN cache ELSE load_hashes_sync

\* save_hashes_sync: True when the document was written
save_hashes_sync == writable

\* the document on disk after save_guild_hashes(hashes_dict)
FileAfterSave(hashes_dict) == IF save_hashes_sync THEN hashes_dict ELSE file

\* active_hash_databases[guild] once a handler that loaded the document and
\* changed it in place has returned (the loaded dict is the cached object)
CacheAfterHandler(hashes_dict) == IF variant = 4 THEN hashes_dict ELSE NoCache

-----------------------------------------------------------------------------
(* Decision engine and live ingestion: on_message.
   The loops below are written  CHOOSE r \in {Loop(x, ..) : x \in {Body(acc, ..)}} : TRUE,
   which is Loop(Body(acc, ..), ..) with the value of one iteration computed
   before the next one starts. *)

NoMatch == [identifier |-> <<None, "">>, distance |-> None,
            original_message_id |-> None, original_user_id |-> None]

RECURSIVE FirstForeign(_, _)
FirstForeign(matches, current_user_id) ==
    IF matches = <<>> THEN NoMatch
    ELSE IF Head(matches).original_user_id = None
            \/ Head(matches).original_user_id # current_user_id
         THEN Head(matches)
         ELSE FirstForeign(Tail(matches), current_user_id)

\* variation: owner_allowed looks at the closest match only
closest_match_only(duplicate_matches, current_mode, current_user_id) ==
    IF duplicate_matches = <<>> THEN NoMatch
    ELSE IF current_mode = "strict" THEN duplicate_matches[1]
    ELSE IF current_mode = "owner_allowed"
         THEN FirstForeign(<<duplicate_matches[1]>>, current_user_id)
    ELSE NoMatch

\* the violating match, NoMatch when the image is not a violation
violating_match(duplicate_matches, current_mode, current_user_id) ==
    IF duplicate_matches = <<>> THEN NoMatch
    ELSE IF current_mode = "strict" THEN duplicate_matches[1]
    ELSE IF current_mode = "owner_allowed"
         THEN FirstForeign(duplicate_matches, current_user_id)
    ELSE NoMatch

\* the actions that are attempted, in order, when the failure of an action in
\* `stops` leaves the sequence (an exception that is not caught around the
\* action, or a break)
RECURSIVE AttemptedActions(_, _, _)
AttemptedActions(order, enabled, stops) ==
    IF order = <<>> THEN <<>>
    ELSE IF Head(order) \notin enabled THEN AttemptedActions(Tail(order), enabled, stops)
    ELSE IF Head(order) \in stops THEN <<Head(order)>>
    ELSE <<Head(order)>> \o AttemptedActions(Tail(order), enabled, stops)

\* on_message on a violation: builds 1 and 2 reply and react, builds 3 and 4
\* reply, log and react
LiveActionOrder ==
    IF variant \in {1, 2} THEN <<"reply", "react">> ELSE <<"reply", "log", "react">>

\* builds 1 and 2 await message.reply() outside any try: its exception ends the
\* handling of the attachment
LiveStops == {a \in {"reply"} : variant \in {1, 2} /\ platform[a] # "ok"}

\* the record on_message stores for a new image
LiveRecord(new_hash, current_user_id) ==
    IF variant = 1
    THEN StructuredRecord(hash_to_hex(new_hash), current_user_id, None)
    ELSE StructuredRecord(hash_to_hex(new_hash), current_user_id, now)

\* one iteration of the attachment loop of on_message; acc carries the loaded
\* document, db_updated and the outcomes so far
LiveAttachment(acc, message, message_id, attachment) ==
    LET scope     == cfg.duplicate_scope
        ch        == message.channel_id_str
        new_hash  == read_and_hash(attachment.img)
        matches   == find_duplicates_sync(new_hash, acc.stored, cfg.similarity_threshold,
                                          scope, ch, cfg.duplicate_check_duration_days)
        vm        == violating_match(matches, cfg.duplicate_check_mode, message.author_id)
        existing  == IF variant = 1 THEN NoEntry
                     ELSE find_existing_hash_entry_sync(new_hash, acc.stored, 0, scope, ch)
        unique_identifier == MakeIdentifier(message_id, attachment.filename)
        insert    == new_hash # None /\ vm = NoMatch /\ existing = NoEntry
        stored2   == IF insert
                     THEN StoreSet(acc.stored, scope, ch, unique_identifier,
                                   LiveRecord(new_hash, message.author_id))
                     ELSE acc.stored
        outcome   == [state    |-> IF new_hash = None THEN "SKIPPED"
                                   ELSE IF vm # NoMatch THEN "VIOLATION" ELSE "UNIQUE",
                      filename |-> attachment.filename,
                      hash     |-> new_hash,
                      matches  |-> matches,
                      report   |-> vm,
                      attempted |-> IF new_hash # None /\ vm # NoMatch
                                    THEN AttemptedActions(LiveActionOrder,
                                                          ExternalActions, LiveStops)
                                    ELSE <<>>,
                      \* message.delete(), the last action on a violation
                      deleted  |-> new_hash # None /\ vm # NoMatch /\ LiveStops = {}
                                   /\ cfg.delete_duplicates,
                      existing |-> existing,
                      inserted |-> insert,
                      before   |-> acc.stored,
                      after    |-> stored2]
    IN  [stored |-> stored2, db_updated |-> acc.db_updated \/ insert,
         out |-> Append(acc.out, outcome)]

\* variation: an attachment that cannot be read or hashed ends the loop
RECURSIVE LiveLoopAborting(_, _, _, _)
LiveLoopAborting(acc, message, message_id, i) ==
    IF i > Len(message.attachments) THEN acc
    ELSE IF acc.out # <<>> /\ acc.out[Len(acc.out)].state = "SKIPPED" THEN acc
    ELSE CHOOSE r \in {LiveLoopAborting(x, message, message_id, i + 1) :
                        x \in {LiveAttachment(acc, message, message_id,
                                               message.attachments[i])}} : TRUE

RECURSIVE LiveLoop(_, _, _, _)
LiveLoop(acc, message, message_id, i) ==
    IF i > Len(message.attachments) THEN acc
    ELSE CHOOSE r \in {LiveLoop(x, message, message_id, i + 1) :
                        x \in {LiveAttachment(acc, message, message_id,
                                               message.attachments[i])}} : TRUE

\* the handler of a delivered message
\* builds 2-4: 'if current_user_id in allowed_users: return', before the store
\* is loaded; build 1 has no allowlist
Exempt(message) == variant # 1 /\ message.author_id \in cfg.allowed_users

on_message ==
    /\ inbox # <<>>
    /\ LET message_id == Head(inbox)
           message    == history[message_id]
           res        == LiveLoop([stored |-> load_guild_hashes, db_updated |-> FALSE,
                                   out |-> <<>>], message, message_id, 1)
       IN  IF Exempt(message)
           THEN /\ UNCHANGED <<file, cache>>
                /\ last' = [op |-> "on_message", msg |-> message_id,
                            channel |-> message.channel_id_str, out |-> <<>>,
                            loaded |-> file, stored |-> file, forbidden |-> FALSE,
                            options |-> {}, attempted |-> <<>>, at |-> now]
           ELSE /\ file' = IF res.db_updated THEN FileAfterSave(res.stored) ELSE file
                /\ cache' = CacheAfterHandler(res.stored)
                /\ last' = [op |-> "on_message", msg |-> message_id,
                            channel |-> message.channel_id_str, out |-> res.out,
                            loaded |-> load_guild_hashes, stored |-> res.stored,
                            forbidden |-> FALSE, options |-> {}, attempted |-> <<>>,
                            at |-> now]
    /\ inbox' = Tail(inbox)
    /\ UNCHANGED <<variant, cfg, platform, confvars, now, writable, history, last_seen, taskvars>>

-----------------------------------------------------------------------------
(* Environment: the platform and the clock *)

Attachment(filename, img) == [filename |-> filename, img |-> img]

AttachmentLists ==
    {<<Attachment("a", i)>> : i \in Images \cup {BadImage}}
    \cup {<<Attachment("a", 0), Attachment("a", 3)>>}
    \cup {<<Attachment("a", BadImage), Attachment("b", 0)>>,
          <<Attachment("a", 1), Attachment("b", NoBytes)>>,
          <<Attachment("a", 0), Attachment("b", 1)>>}

\* a user posts a message; the gateway delivers it unless the bot is disconnected
Message(author_id, ch, created_at, atts) ==
    [author_id |-> author_id, channel_id_str |-> ch, created_at |-> created_at,
     attachments |-> atts]

\* the limits an operator passes: the smallest and the largest
Limits == {1, MaxLimit}

\* channels that take part: one is enough where the policy does not partition by channel
PostChannels == IF cfg.duplicate_scope = "channel" THEN Channels ELSE {"c1"}

\* what a post carries: where the policy partitions by channel the posts vary
\* in channel, and carry one of two near-identical images
PostAttachments ==
    IF cfg.duplicate_scope = "channel"
    THEN {<<Attachment("a", i)>> : i \in {0, 1}}
    ELSE AttachmentLists

\* a user posts a message and the gateway delivers it; handlers run one at a time
Post ==
    /\ Len(history) < MaxMsgs
    /\ inbox = <<>>
    /\ \E author_id \in Users, ch \in PostChannels, atts \in PostAttachments :
          history' = Append(history, Message(author_id, ch, now, atts))
    /\ inbox' = <<Len(history) + 1>>
    /\ UNCHANGED <<variant, cfg, platform, confvars, now, file, cache, writable, last_seen, last, taskvars>>

\* a user posts while the bot is disconnected: no on_message runs for it
PostMissed ==
    /\ Len(history) < MaxMsgs
    /\ inbox = <<>>
    /\ \E author_id \in Users, ch \in PostChannels, atts \in PostAttachments :
          history' = Append(history, Message(author_id, ch, now, atts))
    /\ UNCHANGED <<variant, cfg, platform, confvars, now, file, cache, writable, inbox, last_seen, last, taskvars>>

Tick ==
    /\ now + TickStep <= MaxTime
    /\ now' = now + TickStep
    /\ UNCHANGED <<variant, cfg, platform, confvars, file, cache, writable, history, inbox, last_seen,
                   last, taskvars>>

-----------------------------------------------------------------------------
(* Bulk reconciliation: /scan *)

\* ids of the channel's messages, newest first, at most `limit` of them
RECURSIVE ChannelHistory(_, _, _)
ChannelHistory(ch, limit, i) ==
    IF i = 0 \/ limit = 0 THEN <<>>
    ELSE IF history[i].channel_id_str = ch
         THEN <<i>> \o ChannelHistory(ch, limit - 1, i - 1)
         ELSE ChannelHistory(ch, limit, i - 1)

\* the tuple scan keeps for one hashed attachment
ScanEntry(message_id, filename) ==
    [timestamp |-> history[message_id].created_at, msg_id |-> message_id,
     user_id |-> history[message_id].author_id, filename |-> filename]

RECURSIVE GroupIndex(_, _, _)
GroupIndex(groups, hash_str, i) ==
    IF i > Len(groups) THEN 0
    ELSE IF groups[i].hash_str = hash_str THEN i ELSE GroupIndex(groups, hash_str, i + 1)

\* scanned_image_data[str(img_hash)].append(entry)
GroupAppend(groups, hash_str, entry) ==
    LET i == GroupIndex(groups, hash_str, 1)
    IN  IF i = 0 THEN Append(groups, [hash_str |-> hash_str, entries |-> <<entry>>])
        ELSE [groups EXCEPT ![i].entries = Append(@, entry)]

RECURSIVE GatherAttachments(_, _, _)
GatherAttachments(groups, message_id, i) ==
    LET atts == history[message_id].attachments
    IN  IF i > Len(atts) THEN groups
        ELSE LET img_hash == read_and_hash(atts[i].img)
             IN  GatherAttachments(
                    IF img_hash = None THEN groups
                    ELSE GroupAppend(groups, hash_to_hex(img_hash),
                                     ScanEntry(message_id, atts[i].filename)),
                    message_id, i + 1)

\* phase 1 of scan_history: the hash groups in order of first appearance
RECURSIVE Gather(_, _)
Gather(groups, ids) ==
    IF ids = <<>> THEN groups
    ELSE CHOOSE r \in {Gather(x, Tail(ids)) :
                        x \in {GatherAttachments(groups, Head(ids), 1)}} : TRUE

\* list.sort(key=timestamp): stable, ascending
RECURSIVE SortByTimestamp(_, _)
SortByTimestamp(entries, t) ==
    IF t > MaxTime THEN <<>>
    ELSE SelectSeq(entries, LAMBDA e : e.timestamp = t) \o SortByTimestamp(entries, t + 1)

\* 'timestamp' of a stored value as the reconciliation reads it: None when absent
ExistingTimestampStr(existing_data) ==
    IF existing_data.kind = "dict" THEN existing_data.timestamp ELSE None

\* whether reconciliation rewrites the record of the hash (update_needed)
ScanUpdateNeeded(existing, oldest_timestamp) ==
    LET ts == ExistingTimestampStr(existing.hash_data)
    IN  IF existing = NoEntry THEN TRUE
        ELSE IF ts = None THEN variant # 2
        ELSE IF ts = BadTimestamp THEN variant # 2
        ELSE oldest_timestamp < ts

\* whether the stored record is kept as the canonical one (identifier_to_use,
\* data_to_use = existing): build 2 does so only after a successful comparison
ScanKeepsExisting(existing, oldest_timestamp) ==
    LET ts == ExistingTimestampStr(existing.hash_data)
    IN  /\ existing # NoEntry
        /\ ts # None /\ ts # BadTimestamp
        /\ ~(oldest_timestamp < ts)

\* is_violation for one non-canonical entry
ScanIsViolation(entry, canonical_user_id, canonical_timestamp) ==
    LET by_mode == IF cfg.duplicate_check_mode = "strict" THEN TRUE
                   ELSE IF cfg.duplicate_check_mode = "owner_allowed"
                        THEN canonical_user_id = None \/ canonical_user_id # entry.user_id
                   ELSE FALSE
        d == cfg.duplicate_check_duration_days
    IN  IF by_mode /\ d > 0
        THEN IF canonical_timestamp \in {None, BadTimestamp} THEN FALSE
             ELSE ~(Days(entry.timestamp - canonical_timestamp) > d)
        ELSE by_mode

\* /scan on a violating entry: build 2 replies and reacts, builds 3 and 4 log,
\* reply and react
ScanActionOrder ==
    IF variant = 2 THEN <<"reply", "react">> ELSE <<"log", "reply", "react">>

\* the actions whose discord.Forbidden is answered with break
ScanStops ==
    {a \in (IF variant = 2 THEN {"react"} ELSE {"reply", "react"}) :
        platform[a] = "forbidden"}

\* the option sets an operator passes to /scan: no action, or all of them
ScanOptionSets == {{}, ExternalActions}

\* whether an enabled action leaves the loop over the group's entries
ScanForbidden(options) ==
    \E i \in 1..Len(ScanActionOrder) : ScanActionOrder[i] \in options \cap ScanStops

\* the violations the flagging loop reaches: an action that raises
\* discord.Forbidden ends the loop over the group's entries (break)
ReachedViolations(violations, forbidden) ==
    IF forbidden /\ violations # <<>> THEN <<violations[1]>> ELSE violations

\* phase 2 for one hash group; acc carries the document, db_updated, the
\* outcomes so far and whether an uncaught exception ended the command;
\* forbidden: the enabled actions raise discord.Forbidden
ScanGroup(acc, group, scan_channel_id_str, forbidden) ==
    LET scope    == cfg.duplicate_scope
        entries  == SortByTimestamp(group.entries, 0)
        oldest   == entries[1]
        oldest_identifier == MakeIdentifier(oldest.msg_id, oldest.filename)
        img_hash_obj == hex_to_hash(group.hash_str)
        existing == find_existing_hash_entry_sync(img_hash_obj, acc.stored, 0, scope,
                                                  scan_channel_id_str)
        update_needed == ScanUpdateNeeded(existing, oldest.timestamp)
        keeps    == ScanKeepsExisting(existing, oldest.timestamp)
        identifier_to_use == IF keeps THEN existing.identifier ELSE oldest_identifier
        data_to_use == IF keeps THEN existing.hash_data
                       ELSE StructuredRecord(group.hash_str, oldest.user_id, oldest.timestamp)
        popped   == IF update_needed /\ existing # NoEntry
                       /\ existing.identifier # identifier_to_use
                    THEN StorePop(acc.stored, scope, scan_channel_id_str, existing.identifier)
                    ELSE acc.stored
        stored2  == IF update_needed
                    THEN StoreSet(popped, scope, scan_channel_id_str, identifier_to_use,
                                  data_to_use)
                    ELSE acc.stored
        \* what the flagging loop treats as the original
        canonical_id   == IF variant = 2 THEN oldest_identifier ELSE identifier_to_use
        canonical_user == IF variant = 2 THEN oldest.user_id ELSE data_to_use.user_id
        canonical_time == IF variant = 2 THEN oldest.timestamp ELSE data_to_use.timestamp
        raises   == variant # 2 /\ ParseMessageId(canonical_id) = None
                    /\ entries # <<>>
        judged   == SelectSeq(entries, LAMBDA e : e.msg_id # ParseMessageId(canonical_id))
        violations == IF raises THEN <<>>
                      ELSE ReachedViolations(
                              SelectSeq(judged, LAMBDA e :
                                  ScanIsViolation(e, canonical_user, canonical_time)),
                              forbidden)
        outcome  == [hash_str |-> group.hash_str, entries |-> entries,
                     existing |-> existing, update_needed |-> update_needed,
                     canonical_id |-> canonical_id, canonical_user_id |-> canonical_user,
                     violations |-> violations, before |-> acc.stored, after |-> stored2]
    IN  IF acc.raised THEN acc
        ELSE [stored |-> stored2, db_updated |-> acc.db_updated \/ update_needed,
              out |-> Append(acc.out, outcome), raised |-> raises]

\* variation: a refused action on an entry ends the loop over the groups
RECURSIVE ScanLoopAborting(_, _, _, _, _)
ScanLoopAborting(acc, groups, scan_channel_id_str, forbidden, i) ==
    IF i > Len(groups) THEN acc
    ELSE IF forbidden /\ acc.out # <<>> /\ acc.out[Len(acc.out)].violations # <<>> THEN acc
    ELSE CHOOSE r \in {ScanLoopAborting(x, groups, scan_channel_id_str, forbidden, i + 1) :
                        x \in {ScanGroup(acc, groups[i], scan_channel_id_str,
                                          forbidden)}} : TRUE

RECURSIVE ScanLoop(_, _, _, _, _)
ScanLoop(acc, groups, scan_channel_id_str, forbidden, i) ==
    IF i > Len(groups) THEN acc
    ELSE CHOOSE r \in {ScanLoop(x, groups, scan_channel_id_str, forbidden, i + 1) :
                        x \in {ScanGroup(acc, groups[i], scan_channel_id_str,
                                          forbidden)}} : TRUE

\* the /scan command on one channel (builds 2, 3 and 4)
scan_history ==
    /\ variant # 1
    /\ inbox = <<>>
    /\ Len(history) > 0
    /\ \E channel \in PostChannels, limit \in Limits, options \in ScanOptionSets :
         LET forbidden == ScanForbidden(options)
             groups == Gather(<<>>, ChannelHistory(channel, limit, Len(history)))
             res    == ScanLoop([stored |-> file, db_updated |-> FALSE, out |-> <<>>,
                                 raised |-> FALSE], groups, channel, forbidden, 1)
             saved  == res.db_updated /\ ~res.raised
         IN  /\ file' = IF saved THEN FileAfterSave(res.stored) ELSE file
             /\ cache' = IF variant = 4 /\ res.raised THEN res.stored ELSE NoCache
             /\ last' = [op |-> "scan", msg |-> limit, channel |-> channel, out |-> res.out,
                         loaded |-> file, stored |-> res.stored, forbidden |-> forbidden,
                         options |-> options,
                         attempted |-> AttemptedActions(ScanActionOrder, options,
                                                        ScanStops),
                         at |-> now]
    /\ UNCHANGED <<variant, cfg, platform, confvars, now, writable, history, inbox, last_seen, taskvars>>

-----------------------------------------------------------------------------
(* Start-up catch-up (build 4): on_ready and process_catchup_message *)

\* ids of the channel's messages created after `after`, oldest first, at most limit
RECURSIVE HistoryAfter(_, _, _, _)
HistoryAfter(ch, after, limit, i) ==
    IF i > Len(history) \/ limit = 0 THEN <<>>
    ELSE IF history[i].channel_id_str = ch /\ history[i].created_at > after
         THEN <<i>> \o HistoryAfter(ch, after, limit - 1, i + 1)
         ELSE HistoryAfter(ch, after, limit, i + 1)

CatchupUpdateNeeded(existing, message_timestamp) ==
    LET ts == ExistingTimestampStr(existing.hash_data)
    IN  IF existing = NoEntry THEN TRUE
        ELSE IF ts = None \/ ts = BadTimestamp THEN TRUE
        ELSE message_timestamp < ts

CatchupAttachment(acc, message_id, attachment) ==
    LET message  == history[message_id]
        scope    == cfg.duplicate_scope
        ch       == message.channel_id_str
        img_hash == read_and_hash(attachment.img)
        existing == find_existing_hash_entry_sync(img_hash, acc.stored, 0, scope, ch)
        update_needed == img_hash # None
                         /\ CatchupUpdateNeeded(existing, message.created_at)
        identifier_to_use == MakeIdentifier(message_id, attachment.filename)
        data_to_use == StructuredRecord(hash_to_hex(img_hash), message.author_id,
                                        message.created_at)
        popped   == IF existing # NoEntry /\ existing.identifier # identifier_to_use
                    THEN StorePop(acc.stored, scope, ch, existing.identifier)
                    ELSE acc.stored
        stored2  == IF update_needed
                    THEN StoreSet(popped, scope, ch, identifier_to_use, data_to_use)
                    ELSE acc.stored
        outcome  == [msg_id |-> message_id, filename |-> attachment.filename,
                     hash |-> img_hash, existing |-> existing,
                     update_needed |-> update_needed, channel |-> ch,
                     before |-> acc.stored, after |-> stored2]
    IN  [stored |-> stored2, db_updated |-> acc.db_updated \/ update_needed,
         out |-> Append(acc.out, outcome)]

RECURSIVE process_catchup_message(_, _, _)
process_catchup_message(acc, message_id, i) ==
    IF i > Len(history[message_id].attachments) THEN acc
    ELSE CHOOSE r \in {process_catchup_message(x, message_id, i + 1) :
                        x \in {CatchupAttachment(acc, message_id,
                                   history[message_id].attachments[i])}} : TRUE

RECURSIVE CatchupMessages(_, _)
CatchupMessages(acc, ids) ==
    IF ids = <<>> THEN acc
    ELSE CHOOSE r \in {CatchupMessages(x, Tail(ids)) :
                        x \in {process_catchup_message(acc, Head(ids), 1)}} : TRUE

\* the guild's channels in the order on_ready walks them
ChannelOrder == <<"c1", "c2">>

RECURSIVE CatchupChannels(_, _, _, _)
CatchupChannels(acc, after, limit, c) ==
    IF c > Len(ChannelOrder) THEN acc
    ELSE CHOOSE r \in {CatchupChannels(x, after, limit, c + 1) :
                        x \in {CatchupMessages(acc, HistoryAfter(ChannelOrder[c], after,
                                                                 limit, 1))}} : TRUE

\* the process restarts; build 4 replays the messages since the previous start
on_ready ==
    /\ inbox = <<>>
    /\ \E enable_catchup_on_startup \in BOOLEAN, catchup_limit_per_channel \in Limits :
         LET replay == variant = 4 /\ enable_catchup_on_startup /\ last_seen # None
             res    == IF replay
                       THEN CatchupChannels([stored |-> file, db_updated |-> FALSE,
                                             out |-> <<>>], last_seen,
                                            catchup_limit_per_channel, 1)
                       ELSE [stored |-> file, db_updated |-> FALSE, out |-> <<>>]
         IN  /\ file' = IF res.db_updated THEN FileAfterSave(res.stored) ELSE file
             /\ last' = [op |-> "on_ready", msg |-> 0, channel |-> "", out |-> res.out,
                         loaded |-> file, stored |-> res.stored, forbidden |-> FALSE,
                         options |-> {}, attempted |-> <<>>, at |-> now]
    /\ cache' = NoCache
    /\ last_seen' = now
    /\ UNCHANGED <<variant, cfg, platform, confvars, now, writable, history, inbox, taskvars>>

-----------------------------------------------------------------------------
(* on_message as asyncio runs it: a coroutine per message, suspended at each
   await (load, hash and lookup in the executor, the actions, save), so the
   coroutines of two messages interleave.  File reads and writes run in the
   executor under the guild's asyncio.Lock. *)

Guilds == {"g1", "g2"}
ThisGuild == "g1"             \* the guild whose store the model follows
OtherGuild == "g2"

\* the coroutine that does file operations for the other guild
OtherCoroutine == MaxMsgs + 1

NoTasks ==
    /\ heap = <<>>
    /\ handlers = <<>>
    /\ hash_file_locks = [g \in Guilds |-> 0]
    /\ io = [g \in Guilds |-> 0]
    /\ torn = FALSE
    /\ cache_ref = 0

NewHandler ==
    [pc |-> "start", ref |-> 0, matches |-> <<>>, state |-> "", inserted |-> FALSE,
     success |-> "none", opened |-> FALSE, writing |-> EmptyStore,
     file_before |-> EmptyStore, torn_before |-> FALSE]

\* variation: the lock is never held
LockIgnored(g) == TRUE

\* asyncio.Lock of the guild is free
LockFree(g) == hash_file_locks[g] = 0

\* the value of active_hash_databases[guild_id]
CacheValue(h, r) == IF r = 0 THEN NoCache ELSE h[r]

\* the gateway dispatches on_message for a new message while other
\* coroutines are suspended
PostConcurrent ==
    /\ Len(history) < MaxMsgs
    /\ \E author_id \in Users, img \in Images :
          history' = Append(history, Message(author_id, "c1", now,
                                             <<Attachment("a", img)>>))
    /\ handlers' = Append(handlers, NewHandler)
    /\ UNCHANGED <<variant, cfg, platform, confvars, now, file, cache, writable, inbox, last_seen, last,
                   heap, hash_file_locks, io, torn, cache_ref>>

\* load_guild_hashes up to its first suspension: build 4 returns the cached
\* dict; otherwise the coroutine takes the lock if it is free and starts the
\* read, or waits for the lock
LoadStart(m) ==
    /\ m <= Len(handlers)
    /\ handlers[m].pc = "start"
    /\ ~Exempt(history[m])
    /\ IF variant = 4 /\ cache_ref # 0
       THEN /\ handlers' = [handlers EXCEPT ![m].pc = "loaded", ![m].ref = cache_ref]
            /\ UNCHANGED <<hash_file_locks, io>>
       ELSE IF LockFree(ThisGuild) /\ io[ThisGuild] < MaxIo
       THEN /\ handlers' = [handlers EXCEPT ![m].pc = "loading"]
            /\ hash_file_locks' = [hash_file_locks EXCEPT ![ThisGuild] = m]
            /\ io' = [io EXCEPT ![ThisGuild] = @ + 1]
       ELSE /\ handlers' = [handlers EXCEPT ![m].pc = "wait_load"]
            /\ UNCHANGED <<hash_file_locks, io>>
    /\ UNCHANGED <<variant, cfg, platform, confvars, now, file, cache, writable, history, inbox, last_seen,
                   last, heap, torn, cache_ref>>

\* the lock is released to a coroutine that waits to load
LoadBegin(m) ==
    /\ m <= Len(handlers)
    /\ handlers[m].pc = "wait_load"
    /\ LockFree(ThisGuild) /\ io[ThisGuild] < MaxIo
    /\ handlers' = [handlers EXCEPT ![m].pc = "loading"]
    /\ hash_file_locks' = [hash_file_locks EXCEPT ![ThisGuild] = m]
    /\ io' = [io EXCEPT ![ThisGuild] = @ + 1]
    /\ UNCHANGED <<variant, cfg, platform, confvars, now, file, cache, writable, history, inbox, last_seen,
                   last, heap, torn, cache_ref>>

\* the read ends: the coroutine holds a new dict; build 4 caches it
LoadEnd(m) ==
    /\ m <= Len(handlers)
    /\ handlers[m].pc = "loading"
    /\ heap' = Append(heap, load_hashes_sync)
    /\ handlers' = [handlers EXCEPT ![m].pc = "loaded", ![m].ref = Len(heap) + 1]
    /\ hash_file_locks' = [hash_file_locks EXCEPT ![ThisGuild] = 0]
    /\ io' = [io EXCEPT ![ThisGuild] = @ - 1]
    /\ cache_ref' = IF variant = 4 THEN Len(heap) + 1 ELSE cache_ref
    /\ cache' = CacheValue(heap', cache_ref')
    /\ UNCHANGED <<variant, cfg, platform, confvars, now, file, writable, history, inbox, last_seen, last,
                   torn>>

\* attachment.read, calculate_hash and find_duplicates run; the lookup reads
\* the dict as it is now and the coroutine is suspended until it returns
Lookup(m) ==
    /\ m <= Len(handlers)
    /\ handlers[m].pc = "loaded"
    /\ LET new_hash == calculate_hash_sync(history[m].attachments[1].img)
       IN  handlers' = [handlers EXCEPT
               ![m].pc = "matched",
               ![m].matches = find_duplicates_sync(new_hash, heap[handlers[m].ref],
                                  cfg.similarity_threshold, cfg.duplicate_scope,
                                  history[m].channel_id_str,
                                  cfg.duplicate_check_duration_days)]
    /\ UNCHANGED <<variant, cfg, platform, confvars, now, file, cache, writable, history, inbox, last_seen,
                   last, heap, hash_file_locks, io, torn, cache_ref>>

\* variation: the coroutine looks the image up again when it resumes and
\* decides on the matches the dict holds then
DecideRevalidating(m) ==
    /\ m <= Len(handlers)
    /\ handlers[m].pc = "matched"
    /\ LET h        == handlers[m]
           message  == history[m]
           new_hash == calculate_hash_sync(message.attachments[1].img)
           fresh    == find_duplicates_sync(new_hash, heap[h.ref],
                           cfg.similarity_threshold, cfg.duplicate_scope,
                           message.channel_id_str, cfg.duplicate_check_duration_days)
           vm       == violating_match(fresh, cfg.duplicate_check_mode,
                                       message.author_id)
           existing == IF variant = 1 THEN NoEntry
                       ELSE find_existing_hash_entry_sync(new_hash, heap[h.ref], 0,
                                cfg.duplicate_scope, message.channel_id_str)
           insert   == vm = NoMatch /\ existing = NoEntry
       IN  /\ heap' = IF insert
                      THEN [heap EXCEPT ![h.ref] =
                               StoreSet(@, cfg.duplicate_scope, message.channel_id_str,
                                        MakeIdentifier(m, message.attachments[1].filename),
                                        LiveRecord(new_hash, message.author_id))]
                      ELSE heap
           /\ handlers' = [handlers EXCEPT
                   ![m].pc = IF insert THEN "tosave" ELSE "done",
                   ![m].state = IF vm # NoMatch THEN "VIOLATION" ELSE "UNIQUE",
                   ![m].inserted = insert]
    /\ cache' = CacheValue(heap', cache_ref)
    /\ UNCHANGED <<variant, cfg, platform, confvars, now, file, writable, history, inbox, last_seen, last,
                   hash_file_locks, io, torn, cache_ref>>

\* the coroutine resumes with the matches: decision, and for a unique image
\* the existence probe and the insertion into the dict it holds
Decide(m) ==
    /\ m <= Len(handlers)
    /\ handlers[m].pc = "matched"
    /\ LET h        == handlers[m]
           message  == history[m]
           new_hash == calculate_hash_sync(message.attachments[1].img)
           vm       == violating_match(h.matches, cfg.duplicate_check_mode,
                                       message.author_id)
           existing == IF variant = 1 THEN NoEntry
                       ELSE find_existing_hash_entry_sync(new_hash, heap[h.ref], 0,
                                cfg.duplicate_scope, message.channel_id_str)
           insert   == vm = NoMatch /\ existing = NoEntry
       IN  /\ heap' = IF insert
                      THEN [heap EXCEPT ![h.ref] =
                               StoreSet(@, cfg.duplicate_scope, message.channel_id_str,
                                        MakeIdentifier(m, message.attachments[1].filename),
                                        LiveRecord(new_hash, message.author_id))]
                      ELSE heap
           /\ handlers' = [handlers EXCEPT
                   ![m].pc = IF insert THEN "tosave" ELSE "done",
                   ![m].state = IF vm # NoMatch THEN "VIOLATION" ELSE "UNIQUE",
                   ![m].inserted = insert]
    /\ cache' = CacheValue(heap', cache_ref)
    /\ UNCHANGED <<variant, cfg, platform, confvars, now, file, writable, history, inbox, last_seen, last,
                   hash_file_locks, io, torn, cache_ref>>

\* save_guild_hashes takes the lock and save_hashes_sync opens the file for
\* writing: open() either raises and leaves the file alone, or truncates it
SaveBegin(m) ==
    /\ m <= Len(handlers)
    /\ handlers[m].pc = "tosave"
    /\ LockFree(ThisGuild) /\ io[ThisGuild] < MaxIo
    /\ hash_file_locks' = [hash_file_locks EXCEPT ![ThisGuild] = m]
    /\ io' = [io EXCEPT ![ThisGuild] = @ + 1]
    /\ \E opened \in BOOLEAN :
          /\ handlers' = [handlers EXCEPT
                 ![m].pc = "saving", ![m].opened = opened,
                 ![m].writing = heap[handlers[m].ref],
                 ![m].file_before = file, ![m].torn_before = torn]
          /\ torn' = IF opened THEN TRUE ELSE torn
          /\ file' = IF opened THEN EmptyStore ELSE file
    /\ UNCHANGED <<variant, cfg, platform, confvars, now, cache, writable, history, inbox, last_seen, last,
                   heap, cache_ref>>

\* save_hashes_sync returns: True when json.dump wrote the whole dict (as it
\* was when the write began, or as it is now when another coroutine changed it
\* meanwhile), False when open() or json.dump raised; build 4 caches a copy
SaveEnd(m) ==
    /\ m <= Len(handlers)
    /\ handlers[m].pc = "saving"
    /\ hash_file_locks' = [hash_file_locks EXCEPT ![ThisGuild] = 0]
    /\ io' = [io EXCEPT ![ThisGuild] = @ - 1]
    /\ \E ok \in {b \in BOOLEAN : b => handlers[m].opened},
          content \in {handlers[m].writing, heap[handlers[m].ref]} :
          /\ handlers' = [handlers EXCEPT
                 ![m].pc = "done", ![m].success = IF ok THEN "ok" ELSE "failed"]
          /\ file' = IF ok THEN content ELSE file
          /\ torn' = IF ok THEN FALSE ELSE torn
          /\ heap' = IF ok /\ variant = 4 THEN Append(heap, heap[handlers[m].ref])
                     ELSE heap
          /\ cache_ref' = IF ok /\ variant = 4 THEN Len(heap) + 1 ELSE cache_ref
          /\ cache' = CacheValue(heap', cache_ref')
    /\ UNCHANGED <<variant, cfg, platform, confvars, now, writable, history, inbox, last_seen, last>>

\* a coroutine of the other guild starts a read or write of that guild's
\* document under that guild's lock
OtherGuildIoBegin ==
    /\ LockFree(OtherGuild) /\ io[OtherGuild] < MaxIo
    /\ hash_file_locks' = [hash_file_locks EXCEPT ![OtherGuild] = OtherCoroutine]
    /\ io' = [io EXCEPT ![OtherGuild] = @ + 1]
    /\ UNCHANGED <<variant, cfg, platform, confvars, now, file, cache, writable, history, inbox, last_seen,
                   last, heap, handlers, torn, cache_ref>>

OtherGuildIoEnd ==
    /\ io[OtherGuild] > 0
    /\ hash_file_locks' = [hash_file_locks EXCEPT ![OtherGuild] = 0]
    /\ io' = [io EXCEPT ![OtherGuild] = @ - 1]
    /\ UNCHANGED <<variant, cfg, platform, confvars, now, file, cache, writable, history, inbox, last_seen,
                   last, heap, handlers, torn, cache_ref>>

-----------------------------------------------------------------------------
(* Configuration: server_configs.json, its cache, validate_config_data and the
   configuration commands.  One guild is modelled.  A field of a configuration
   dict holds a JSON value: a number, a string, null, or nothing (Absent, the
   key is not in the dict). *)

JInt(n) == [t |-> "int", n |-> n, s |-> ""]
JStr(s) == [t |-> "str", n |-> 0, s |-> s]
JNull == [t |-> "null", n |-> 0, s |-> ""]
Absent == [t |-> "absent", n |-> 0, s |-> ""]

ConfigKeys ==
    {"hash_size", "similarity_threshold", "duplicate_check_duration_days",
     "duplicate_scope", "duplicate_check_mode"}

\* the integers whose decimal text a string field may hold
IntLiterals == -1..32

\* int(v) raises ValueError (a string that is no number) or TypeError (None)
py_int_raises(v) ==
    \/ v.t \in {"null", "absent"}
    \/ v.t = "str" /\ \A n \in IntLiterals : ToString(n) # v.s

py_int(v) ==
    IF v.t = "int" THEN v ELSE JInt(CHOOSE n \in IntLiterals : ToString(n) = v.s)

\* str(v); dict.get of a missing key gives None
py_str(v) ==
    CASE v.t = "int" -> ToString(v.n)
      [] v.t = "str" -> v.s
      [] OTHER -> "None"

\* build 1 has no duplicate_check_duration_days
get_default_guild_config ==
    [k \in ConfigKeys |->
        CASE k = "hash_size" -> JInt(8)
          [] k = "similarity_threshold" -> JInt(5)
          [] k = "duplicate_check_duration_days" -> IF variant = 1 THEN Absent ELSE JInt(0)
          [] k = "duplicate_scope" -> JStr("server")
          [] k = "duplicate_check_mode" -> JStr("strict")]

\* the statements of the try block of validate_config_data, in order, by the
\* key each one validates
ValidationSteps ==
    IF variant = 1
    THEN <<"hash_size", "similarity_threshold", "duplicate_scope", "duplicate_check_mode">>
    ELSE <<"hash_size", "similarity_threshold", "duplicate_check_duration_days",
           "duplicate_scope", "duplicate_check_mode">>

NumberKeys == {"hash_size", "similarity_threshold", "duplicate_check_duration_days"}

\* v in VALID_SCOPES, v in VALID_CHECK_MODES
InEnum(k, v) ==
    v.t = "str" /\ v.s \in (IF k = "duplicate_scope" THEN VALID_SCOPES ELSE VALID_CHECK_MODES)

StepRaises(validated, k) == k \in NumberKeys /\ py_int_raises(validated[k])

StepResult(validated, k) ==
    CASE k \in {"hash_size", "similarity_threshold"} ->
            [validated EXCEPT ![k] = py_int(@)]
      [] k = "duplicate_check_duration_days" ->
            [validated EXCEPT ![k] = IF py_int(@).n < 0 THEN JInt(0) ELSE py_int(@)]
      [] OTHER ->
            IF InEnum(k, validated[k]) THEN validated
            ELSE [validated EXCEPT ![k] = get_default_guild_config[k]]

\* build 1 prints a warning when it resets an enum field; builds 2-4 do not
StepWarns(validated, k) ==
    variant = 1 /\ k \notin NumberKeys /\ ~InEnum(k, validated[k])

\* the try block from its i-th statement on; an exception ends it, the
\* handler prints the exception and the dict is returned as it stands
RECURSIVE RunValidation(_, _, _)
RunValidation(validated, warned, i) ==
    IF i > Len(ValidationSteps) THEN [conf |-> validated, warned |-> warned]
    ELSE LET k == ValidationSteps[i]
         IN  IF StepRaises(validated, k)
             THEN [conf |-> validated, warned |-> warned \cup {k}]
             ELSE RunValidation(StepResult(validated, k),
                                IF StepWarns(validated, k) THEN warned \cup {k} ELSE warned,
                                i + 1)

\* validated = defaults.copy(); validated.update(config_data); try: ...
validate_config_data(config_data) ==
    RunValidation([k \in ConfigKeys |->
                      IF config_data[k] = Absent THEN get_default_guild_config[k]
                      ELSE config_data[k]],
                  {}, 1)

NoFields == [k \in ConfigKeys |-> Absent]

\* server_configs without the guild; server_configs.json without the guild
NoGuild == [known |-> FALSE, conf |-> NoFields]
NoFile == [exists |-> FALSE, doc |-> NoFields]

Known(conf) == [known |-> TRUE, conf |-> conf]
Document(doc) == [exists |-> TRUE, doc |-> doc]

\* get_guild_config: the cache it leaves and whether it schedules a save
GetGuildConfig(sc) ==
    IF ~sc.known THEN [cache |-> Known(get_default_guild_config), save |-> TRUE]
    ELSE LET missing == {k \in ConfigKeys :
                            get_default_guild_config[k] # Absent /\ sc.conf[k] = Absent}
             guild_conf == [k \in ConfigKeys |->
                               IF k \in missing THEN get_default_guild_config[k] ELSE sc.conf[k]]
         IN  IF missing # {}
             THEN [cache |-> Known(validate_config_data(guild_conf).conf), save |-> TRUE]
             ELSE [cache |-> sc, save |-> FALSE]

\* save_main_config: json.dump of the cache
SavedDocument(sc) == IF sc.known THEN Document(sc.conf) ELSE NoFile

NoCommand ==
    [op |-> "none", setting |-> "", input |-> NoFields, before |-> NoGuild,
     rejected |-> FALSE, reasons |-> {}]

NoConfig ==
    /\ config_file = NoFile
    /\ server_configs = NoGuild
    /\ config_last = NoCommand

\* on_ready: server_configs is rebuilt from the document
load_main_config ==
    /\ server_configs' =
          IF config_file.exists THEN Known(validate_config_data(config_file.doc).conf)
          ELSE NoGuild
    /\ config_last' =
          [op |-> "load_main_config", setting |-> "", input |-> config_file.doc,
           before |-> server_configs, rejected |-> FALSE,
           reasons |-> IF config_file.exists
                       THEN validate_config_data(config_file.doc).warned ELSE {}]
    /\ UNCHANGED <<variant, cfg, platform, config_file, now, file, cache, writable, history,
                   inbox, last_seen, last, taskvars>>

\* any handler that reads the guild's policy
get_guild_config ==
    /\ server_configs' = GetGuildConfig(server_configs).cache
    /\ config_file' =
          IF GetGuildConfig(server_configs).save
          THEN SavedDocument(GetGuildConfig(server_configs).cache) ELSE config_file
    /\ config_last' =
          [op |-> "get_guild_config", setting |-> "", input |-> NoFields,
           before |-> server_configs, rejected |-> FALSE, reasons |-> {}]
    /\ UNCHANGED <<variant, cfg, platform, now, file, cache, writable, history, inbox,
                   last_seen, last, taskvars>>

\* what an administrator can type as the value of a configuration command
\* (build 1 takes the value as text, the slash commands of builds 2-4 as a
\* string or an integer option)
CommandValues ==
    {JStr("channel"), JStr("global"), JStr("1"), JStr("-1"), JInt(1), JInt(-1)}

\* builds 2-4: the declared discord.Option of /config_set_<setting>; the
\* platform refuses a value outside it and the handler does not run
OptionAccepts(setting, value) ==
    CASE setting = "similarity_threshold" -> value.t = "int" /\ value.n \in 0..20
      [] setting = "hash_size" -> value.t = "int" /\ value.n \in 4..32
      [] setting = "duplicate_check_duration_days" -> value.t = "int" /\ value.n >= 0
      [] OTHER -> InEnum(setting, value)

\* build 1, !config set <setting> <value>: the validated value, or Absent
\* with an error message
ParsedValue(setting, value) ==
    CASE setting = "duplicate_check_duration_days" -> Absent
      [] setting \in {"duplicate_scope", "duplicate_check_mode"} ->
            IF InEnum(setting, value) THEN value ELSE Absent
      [] OTHER ->
            IF py_int_raises(value) THEN Absent
            ELSE IF py_int(value).n < (IF setting = "hash_size" THEN 4 ELSE 0) THEN Absent
            ELSE py_int(value)

config_set ==
    \E setting \in ConfigKeys, value \in CommandValues :
        /\ variant = 1 => value.t = "str"
        /\ LET got == GetGuildConfig(server_configs)
               guild_config == got.cache.conf
               new_value == IF variant = 1 THEN ParsedValue(setting, value) ELSE value
               refused == IF variant = 1 THEN new_value = Absent
                          ELSE ~OptionAccepts(setting, value)
               \* builds 2-4: the handler did not run at all
               unreached == variant # 1 /\ refused
               already == variant # 1 /\ ~refused
                          /\ py_str(guild_config[setting]) = py_str(new_value)
               after == IF unreached THEN server_configs
                        ELSE IF refused \/ already THEN got.cache
                        \* save_guild_config: validate, cache, save_main_config
                        ELSE Known(validate_config_data(
                                 [guild_config EXCEPT ![setting] = new_value]).conf)
           IN  /\ server_configs' = after
               /\ config_file' =
                     IF unreached THEN config_file
                     ELSE IF refused \/ already
                          THEN (IF got.save THEN SavedDocument(after) ELSE config_file)
                     ELSE SavedDocument(after)
               /\ config_last' =
                     [op |-> "config_set", setting |-> setting,
                      input |-> [NoFields EXCEPT ![setting] = value],
                      before |-> server_configs, rejected |-> refused,
                      reasons |-> IF refused THEN {setting} ELSE {}]
        /\ UNCHANGED <<variant, cfg, platform, now, file, cache, writable, history, inbox,
                       last_seen, last, taskvars>>

\* The list-valued fields of the guild's configuration dict.  The scalar fields
\* are taken as valid, so the try block of validate_config_data reaches its
\* list statements.  A field holds a Python list of ids or None.
ListKeys == {"allowed_channel_ids", "allowed_users"}

JList(ids) == [t |-> "list", ids |-> ids]
NoList == [t |-> "null", ids |-> <<>>]

\* id in list
InList(v, id) == v.t = "list" /\ \E i \in 1..Len(v.ids) : v.ids[i] = id

\* the statements of validate_config_data for allowed_channel_ids and
\* allowed_users: an emptied channel list becomes None, a missing allowlist
\* becomes [] (build 1 has no allowlist)
validate_lists(conf) ==
    [k \in ListKeys |->
        IF k = "allowed_channel_ids"
        THEN (IF conf[k].t = "list" /\ conf[k].ids # <<>> THEN conf[k] ELSE NoList)
        ELSE IF variant = 1 THEN conf[k]
        ELSE IF conf[k].t = "list" THEN conf[k] ELSE JList(<<>>)]

\* the handler found nothing to change and answered so; the cache is as the
\* handler left it
ListUntouched(op, setting, conf, reason) ==
    /\ server_configs' = Known(conf)
    /\ config_file' = config_file
    /\ config_last' = [op |-> op, setting |-> setting, input |-> NoFields,
                       before |-> server_configs, rejected |-> FALSE, reasons |-> {reason}]

\* save_guild_config: server_configs[guild_id] = validate_config_data(...),
\* then save_main_config, which returns False when the write raises; the
\* handler then answers that the save failed
save_guild_config(op, setting, guild_config) ==
    /\ server_configs' = Known(validate_lists(guild_config))
    /\ config_file' = IF writable THEN Document(validate_lists(guild_config)) ELSE config_file
    /\ config_last' = [op |-> op, setting |-> setting, input |-> NoFields,
                       before |-> server_configs, rejected |-> FALSE,
                       reasons |-> IF writable THEN {} ELSE {"save failed"}]

\* build 4, _update_config: it reads the cached value again and returns
\* without saving when str(original_value) == str(new_value); on None and
\* lists of ids str() is one-to-one.  cached is the cache as the caller left it.
update_config(op, setting, cached, new_value) ==
    LET original_value == cached[setting]
    IN  IF original_value = new_value
        THEN ListUntouched(op, setting, cached, "already set")
        ELSE save_guild_config(op, setting, [cached EXCEPT ![setting] = new_value])

\* allowlist_add, config_channel_add.  guild_config is a shallow copy of the
\* cached dict: the list it holds is the cached list, and append acts on it;
\* only when the field is None does the handler make a list of its own.
ListAdd(op, setting, id) ==
    LET cached == server_configs.conf
        shared == cached[setting].t = "list"
        appended == JList(Append(IF shared THEN cached[setting].ids ELSE <<>>, id))
        mutated == IF shared THEN [cached EXCEPT ![setting] = appended] ELSE cached
    IN  IF InList(cached[setting], id)
        THEN ListUntouched(op, setting, cached, "no change")
        ELSE IF variant = 4
             THEN update_config(op, setting, mutated, appended)
             ELSE save_guild_config(op, setting, [cached EXCEPT ![setting] = appended])

\* allowlist_remove, config_channel_remove: remove acts on the cached list; a
\* channel list that becomes empty is replaced by None
ListRemove(op, setting, id) ==
    LET cached == server_configs.conf
        removed == SelectSeq(cached[setting].ids, LAMBDA x : x # id)
        mutated == [cached EXCEPT ![setting] = JList(removed)]
        new_value == IF setting = "allowed_channel_ids" /\ removed = <<>>
                     THEN NoList ELSE JList(removed)
    IN  IF ~InList(cached[setting], id)
        THEN ListUntouched(op, setting, cached, "no change")
        ELSE IF variant = 4
             THEN update_config(op, setting, mutated, new_value)
             ELSE save_guild_config(op, setting, [cached EXCEPT ![setting] = new_value])

allowlist_add ==
    \E user \in Users :
        /\ variant # 1
        /\ ListAdd("allowlist_add", "allowed_users", user)
        /\ UNCHANGED <<variant, cfg, platform, now, file, cache, writable, history, inbox,
                       last_seen, last, taskvars>>

allowlist_remove ==
    \E user \in Users :
        /\ variant # 1
        /\ ListRemove("allowlist_remove", "allowed_users", user)
        /\ UNCHANGED <<variant, cfg, platform, now, file, cache, writable, history, inbox,
                       last_seen, last, taskvars>>

config_channel_add ==
    \E channel \in Channels :
        /\ ListAdd("config_channel_add", "allowed_channel_ids", channel)
        /\ UNCHANGED <<variant, cfg, platform, now, file, cache, writable, history, inbox,
                       last_seen, last, taskvars>>

config_channel_remove ==
    \E channel \in Channels :
        /\ ListRemove("config_channel_remove", "allowed_channel_ids", channel)
        /\ UNCHANGED <<variant, cfg, platform, now, file, cache, writable, history, inbox,
                       last_seen, last, taskvars>>

-----------------------------------------------------------------------------
(* Specifications *)

NoOp == [op |-> "none", msg |-> 0, channel |-> "", out |-> <<>>,
         loaded |-> EmptyStore, stored |-> EmptyStore, forbidden |-> FALSE,
         options |-> {}, attempted |-> <<>>, at |-> 0]

Policies ==
    [duplicate_scope : VALID_SCOPES, duplicate_check_mode : VALID_CHECK_MODES,
     similarity_threshold : 0..MaxThreshold,
     duplicate_check_duration_days : 0..MaxDuration,
     allowed_users : {{}}, delete_duplicates : {FALSE}]

\* policies of the behavioural specification: the threshold under which
\* Images holds both a near and a far pair
LivePolicies == {p \in Policies : p.similarity_threshold = 1}

Init ==
    /\ variant \in Variants
    /\ cfg \in LivePolicies
    /\ platform \in PlatformStates
    /\ variant = 1 => cfg.duplicate_check_duration_days = 0
    /\ now = 0
    /\ file = EmptyStore
    /\ cache = NoCache
    /\ writable = TRUE
    /\ history = <<>>
    /\ inbox = <<>>
    /\ last_seen = None
    /\ last = NoOp
    /\ NoTasks
    /\ NoConfig

Next == Post \/ on_message \/ Tick

\* live operation from a fresh install
Spec == Init /\ [][Next]_vars

-----------------------------------------------------------------------------
(* One lookup against a store document that already holds records: records of
   any age and author, records written by build 1 (no timestamp) and bare hex
   strings of the first format *)

SeedTimestamps == {None} \cup 0..MaxTime
SeedUsers == Users \cup {None}

SeedRecords ==
    {StructuredRecord(hash_to_hex(h), u, t) : h \in Images, u \in SeedUsers, t \in SeedTimestamps}
    \cup {LegacyRecord(hash_to_hex(h)) : h \in Images}

\* the younger records a document holds next to an older one
RecentRecords == {StructuredRecord(hash_to_hex(h), u, MaxTime) : h \in Images, u \in SeedUsers}

SeedEntry(message_id, hash_data) ==
    [identifier |-> MakeIdentifier(message_id, "a"), hash_data |-> hash_data]

\* records whose hash cannot be read: a non-hex character, a hash of another
\* hash_size, a bare string that is no hash, a dict without the 'hash' key
CorruptRecords ==
    {StructuredRecord(<<16>>, 2, MaxTime),
     StructuredRecord([i \in 1..(HexDigits + 1) |-> 0], 2, MaxTime),
     LegacyRecord(<<16>>),
     StructuredRecord(MissingHash, 2, MaxTime)}

SeedDicts ==
    {<<>>}
    \cup {<<SeedEntry(8, r)>> : r \in SeedRecords}
    \cup {<<SeedEntry(8, r), SeedEntry(9, q)>> : r \in SeedRecords, q \in RecentRecords}
    \cup {<<SeedEntry(7, c), SeedEntry(9, q)>> : c \in CorruptRecords, q \in RecentRecords}
    \cup {<<SeedEntry(8, r), SeedEntry(7, c), SeedEntry(9, q)>> :
             r \in RecentRecords, c \in CorruptRecords, q \in RecentRecords}

\* the document that holds dict d in the scope of channel c1
SeedStore(d) ==
    [EmptyStore EXCEPT ![IF cfg.duplicate_scope = "server" THEN RootKey ELSE "c1"] = d]

InitMatch ==
    /\ variant \in Variants
    /\ cfg \in Policies
    /\ platform = Permitted
    /\ variant = 1 => cfg.duplicate_check_duration_days = 0
    /\ now = MaxTime
    /\ \E d \in SeedDicts : file = SeedStore(d)
    /\ cache = NoCache
    /\ writable = TRUE
    /\ \E img \in {0, 1} : history = <<Message(1, "c1", MaxTime, <<Attachment("a", img)>>)>>
    /\ inbox = <<1>>
    /\ last_seen = None
    /\ last = NoOp
    /\ NoTasks
    /\ NoConfig

NextMatch == on_message

SpecMatch == InitMatch /\ [][NextMatch]_vars

-----------------------------------------------------------------------------
(* All operations of a guild whose policy partitions the store by channel *)


\* the bot was started once at time 0 on an empty store and the clock has moved on
InitScope ==
    /\ variant \in Variants
    /\ cfg \in LivePolicies
    /\ platform \in {Permitted, [Permitted EXCEPT !["react"] = "forbidden"]}
    /\ cfg.duplicate_scope = "channel"
    /\ cfg.duplicate_check_duration_days = 0
    /\ now = TickStep
    /\ file = EmptyStore
    /\ cache = NoCache
    /\ writable = TRUE
    /\ history = <<>>
    /\ inbox = <<>>
    /\ last_seen = 0
    /\ last = [NoOp EXCEPT !.op = "on_ready"]
    /\ NoTasks
    /\ NoConfig

NextScope == Post \/ on_message \/ PostMissed \/ scan_history \/ on_ready

SpecScope == InitScope /\ [][NextScope]_vars

-----------------------------------------------------------------------------
(* /scan over a channel that holds three image posts, against a document that
   holds no record of the image, one record, the two records that a document
   written by build 1 or by two overlapping handlers holds, a record of the
   other image, or a record whose key does not start with a message id *)

\* three posts, the second one a day after the clock started
ScanTimes == {t \in [1..3 -> 0..MaxTime] : t[1] < t[2] /\ t[2] = TicksPerDay /\ t[2] < t[3]}
ScanAuthors == {<<1, 2, 3>>, <<1, 1, 2>>, <<1, 2, 1>>, <<1, 1, 1>>}
ScanImages == {<<0, 0, 0>>, <<0, 1, 0>>}

ScanSeedDicts ==
    {<<>>, <<SeedEntry(8, LegacyRecord(hash_to_hex(0)))>>,
     <<SeedEntry(8, StructuredRecord(hash_to_hex(0), None, 0))>>}
    \cup {<<SeedEntry(8, StructuredRecord(hash_to_hex(0), 2, t))>> :
             t \in {None, 0, TicksPerDay, MaxTime}}
    \cup {<<SeedEntry(8, StructuredRecord(hash_to_hex(0), 2, MaxTime)),
             SeedEntry(9, StructuredRecord(hash_to_hex(0), 1, MaxTime))>>}
    \cup {<<SeedEntry(8, StructuredRecord(hash_to_hex(1), 2, 0))>>}
    \cup {<<SeedEntry(None, StructuredRecord(hash_to_hex(0), 2, 0))>>}

InitScan ==
    /\ variant \in Variants \ {1}
    /\ cfg \in LivePolicies
    /\ platform \in RefusingPlatformStates
    /\ cfg.duplicate_scope = "server"
    /\ now = MaxTime
    /\ \E d \in ScanSeedDicts : file = SeedStore(d)
    /\ cache = NoCache
    /\ writable = TRUE
    /\ \E t \in ScanTimes, a \in ScanAuthors, g \in ScanImages :
          history = [i \in 1..3 |-> Message(a[i], "c1", t[i], <<Attachment("a", g[i])>>)]
    /\ inbox = <<>>
    /\ last_seen = None
    /\ last = NoOp
    /\ NoTasks
    /\ NoConfig

NextScan == scan_history

SpecScan == InitScan /\ [][NextScan]_vars

-----------------------------------------------------------------------------
(* Concurrent live ingestion on an empty store, server scope *)

InitRace ==
    /\ variant \in Variants
    /\ cfg \in LivePolicies
    /\ platform = Permitted
    /\ cfg.duplicate_scope = "server"
    /\ cfg.duplicate_check_duration_days = 0
    /\ now = 0
    /\ file = EmptyStore
    /\ cache = NoCache
    /\ writable = TRUE
    /\ history = <<>>
    /\ inbox = <<>>
    /\ last_seen = None
    /\ last = NoOp
    /\ NoTasks
    /\ NoConfig

NextRace ==
    \/ PostConcurrent
    \/ \E m \in 1..MaxMsgs : LoadStart(m)
    \/ \E m \in 1..MaxMsgs : LoadBegin(m)
    \/ \E m \in 1..MaxMsgs : LoadEnd(m)
    \/ \E m \in 1..MaxMsgs : Lookup(m)
    \/ \E m \in 1..MaxMsgs : Decide(m)
    \/ \E m \in 1..MaxMsgs : SaveBegin(m)
    \/ \E m \in 1..MaxMsgs : SaveEnd(m)
    \/ OtherGuildIoBegin
    \/ OtherGuildIoEnd

SpecRace == InitRace /\ [][NextRace]_vars

-----------------------------------------------------------------------------
(* The configuration commands and the start-up load over any document an
   administrator may have left in server_configs.json: fields missing, of the
   wrong type, outside their enumeration or out of range *)

FieldValues(k) ==
    CASE k = "hash_size" -> {Absent, JStr("abc")}
      [] k = "similarity_threshold" -> {Absent, JNull}
      [] k = "duplicate_check_duration_days" -> {Absent, JInt(-1), JStr("1"), JStr("abc")}
      [] k = "duplicate_scope" -> {Absent, JStr("channel"), JStr("global")}
      [] k = "duplicate_check_mode" -> {Absent, JStr("lenient")}

ConfigDocuments ==
    {[k \in ConfigKeys |->
         CASE k = "hash_size" -> h
           [] k = "similarity_threshold" -> t
           [] k = "duplicate_check_duration_days" -> d
           [] k = "duplicate_scope" -> s
           [] k = "duplicate_check_mode" -> m] :
        h \in FieldValues("hash_size"), t \in FieldValues("similarity_threshold"),
        d \in FieldValues("duplicate_check_duration_days"),
        s \in FieldValues("duplicate_scope"), m \in FieldValues("duplicate_check_mode")}

InitConfig ==
    /\ variant \in Variants
    /\ cfg = [duplicate_scope |-> "server", duplicate_check_mode |-> "strict",
              similarity_threshold |-> 1, duplicate_check_duration_days |-> 0,
              allowed_users |-> {}, delete_duplicates |-> FALSE]
    /\ platform = Permitted
    /\ now = 0
    /\ file = EmptyStore
    /\ cache = NoCache
    /\ writable = TRUE
    /\ history = <<>>
    /\ inbox = <<>>
    /\ last_seen = None
    /\ last = NoOp
    /\ NoTasks
    /\ config_file \in {NoFile} \cup {Document(d) : d \in ConfigDocuments}
    /\ server_configs = NoGuild
    /\ config_last = NoCommand

NextConfig == load_main_config \/ get_guild_config \/ config_set

SpecConfig == InitConfig /\ [][NextConfig]_vars

-----------------------------------------------------------------------------
(* The list setters, from a policy document and a cache that agree, with a
   disk that takes the write or refuses it *)

ListDocuments ==
    {[k \in ListKeys |-> IF k = "allowed_users" THEN u ELSE c] :
        u \in {JList(<<>>), JList(<<1>>)}, c \in {NoList, JList(<<"c1">>)}}

InitLists ==
    /\ variant \in Variants
    /\ cfg = [duplicate_scope |-> "server", duplicate_check_mode |-> "strict",
              similarity_threshold |-> 1, duplicate_check_duration_days |-> 0,
              allowed_users |-> {}, delete_duplicates |-> FALSE]
    /\ platform = Permitted
    /\ now = 0
    /\ file = EmptyStore
    /\ cache = NoCache
    /\ writable \in BOOLEAN
    /\ history = <<>>
    /\ inbox = <<>>
    /\ last_seen = None
    /\ last = NoOp
    /\ NoTasks
    /\ \E d \in ListDocuments :
          /\ config_file = Document(validate_lists(d))
          /\ server_configs = Known(validate_lists(d))
    /\ config_last = NoCommand

NextLists == allowlist_add \/ allowlist_remove \/ config_channel_add \/ config_channel_remove

SpecLists == InitLists /\ [][NextLists]_vars

-----------------------------------------------------------------------------
(* Live ingestion and /scan in a guild whose policy exempts user 2 *)

InitAllow ==
    /\ variant \in Variants \ {1}
    /\ cfg = [duplicate_scope |-> "server", duplicate_check_mode |-> "strict",
              similarity_threshold |-> 1, duplicate_check_duration_days |-> 0,
              allowed_users |-> {2}, delete_duplicates |-> FALSE]
    /\ platform = Permitted
    /\ now = 0
    /\ file = EmptyStore
    /\ cache = NoCache
    /\ writable = TRUE
    /\ history = <<>>
    /\ inbox = <<>>
    /\ last_seen = None
    /\ last = NoOp
    /\ NoTasks
    /\ NoConfig

NextAllow == Post \/ on_message \/ scan_history

SpecAllow == InitAllow /\ [][NextAllow]_vars

-----------------------------------------------------------------------------
(* Live ingestion under a retention window of one day, on a store that is
   empty or holds one record of the image that the window no longer covers:
   a record two days old, a record without timestamp, a bare hash string *)

RetainSeedDicts ==
    {<<>>,
     <<SeedEntry(8, StructuredRecord(hash_to_hex(0), 2, 0))>>,
     <<SeedEntry(8, StructuredRecord(hash_to_hex(0), 2, None))>>,
     <<SeedEntry(8, LegacyRecord(hash_to_hex(0)))>>}

InitRetain ==
    /\ variant \in Variants \ {1}
    /\ cfg = [duplicate_scope |-> "server", duplicate_check_mode |-> "strict",
              similarity_threshold |-> 1, duplicate_check_duration_days |-> MaxDuration,
              allowed_users |-> {}, delete_duplicates |-> FALSE]
    /\ platform = Permitted
    /\ now = MaxTime
    /\ \E d \in RetainSeedDicts : file = SeedStore(d)
    /\ cache = NoCache
    /\ writable = TRUE
    /\ history = <<>>
    /\ inbox = <<>>
    /\ last_seen = None
    /\ last = NoOp
    /\ NoTasks
    /\ NoConfig

NextRetain == Post \/ on_message

SpecRetain == InitRetain /\ [][NextRetain]_vars

-----------------------------------------------------------------------------
(* Build 4 with its store cache, live ingestion and /scan, on a disk that
   takes the write of the store document or refuses it *)

InitCache ==
    /\ variant = 4
    /\ cfg = [duplicate_scope |-> "server", duplicate_check_mode |-> "strict",
              similarity_threshold |-> 1, duplicate_check_duration_days |-> 0,
              allowed_users |-> {}, delete_duplicates |-> FALSE]
    /\ platform = Permitted
    /\ now = 0
    /\ file = EmptyStore
    /\ cache = NoCache
    /\ writable \in BOOLEAN
    /\ history = <<>>
    /\ inbox = <<>>
    /\ last_seen = None
    /\ last = NoOp
    /\ NoTasks
    /\ NoConfig

NextCache == Post \/ on_message \/ scan_history

SpecCache == InitCache /\ [][NextCache]_vars

-----------------------------------------------------------------------------
(* Live ingestion in a guild whose policy deletes the message of a violation
   (delete_duplicates set to True) *)

InitDelete ==
    /\ variant \in Variants
    /\ cfg = [duplicate_scope |-> "server", duplicate_check_mode |-> "strict",
              similarity_threshold |-> 1, duplicate_check_duration_days |-> 0,
              allowed_users |-> {}, delete_duplicates |-> TRUE]
    /\ platform = Permitted
    /\ now = 0
    /\ file = EmptyStore
    /\ cache = NoCache
    /\ writable = TRUE
    /\ history = <<>>
    /\ inbox = <<>>
    /\ last_seen = None
    /\ last = NoOp
    /\ NoTasks
    /\ NoConfig

NextDelete == Post \/ on_message

SpecDelete == InitDelete /\ [][NextDelete]_vars

-----------------------------------------------------------------------------
(* Properties of the decision engine and of live ingestion *)

\* the mapping a lookup for channel ch reads under the policy in force
Partition(stored, ch) == hashes_to_check(stored, cfg.duplicate_scope, ch)

\* the entries of mapping d as a set
Entries(d) == {d[k] : k \in 1..Len(d)}

\* the records of d that hold exactly the fingerprint h
RecordsOfHash(d, h) == SelectSeq(d, LAMBDA e : e.hash_data.hash = hash_to_hex(h))

\* what the last on_message decided, one outcome per attachment
Outcomes == IF last.op = "on_message" THEN {last.out[i] : i \in 1..Len(last.out)} ELSE {}

Poster == history[last.msg].author_id

\* the decoded hash of a record is at Hamming distance dist from h
DistanceTo(e, h) == HashDistance(h, hex_to_hash(e.hash_data.hash))

WellFormed(e) ==
    e.hash_data.hash # MissingHash /\ hex_to_hash(e.hash_data.hash) # None

HasTimestamp(e) ==
    e.hash_data.kind = "dict" /\ e.hash_data.timestamp \notin {None, BadTimestamp}

\* now - retention_days, in ticks
Cutoff == now - cfg.duplicate_check_duration_days * TicksPerDay

\* the record carries a timestamp that is not older than the cutoff, or no
\* retention window is configured
Unexpired(e) ==
    \/ cfg.duplicate_check_duration_days = 0
    \/ HasTimestamp(e) /\ e.hash_data.timestamp >= Cutoff

Matched(o, e) == \E j \in 1..Len(o.matches) : o.matches[j].identifier = e.identifier

\* message m carries exactly one attachment and it is an image
OneImage(m) ==
    /\ Len(history[m].attachments) = 1
    /\ calculate_hash_sync(history[m].attachments[1].img) # None

\* messages 1 and 2 carried the same image into the same scope partition, both
\* were ingested live, and on_message has just handled the second
C1_Reingested ==
    /\ last.op = "on_message" /\ last.msg = 2
    /\ OneImage(1) /\ OneImage(2)
    /\ history[1].attachments[1].img = history[2].attachments[1].img
    /\ cfg.duplicate_scope = "channel" =>
          history[1].channel_id_str = history[2].channel_id_str

(* C1: an image ingested twice in succession by on_message, with no other
   image in between, leaves exactly one record with its fingerprint in the
   scope partition; the second ingestion adds no record. *)
C1_IdempotentIngestion ==
    C1_Reingested =>
        /\ Len(RecordsOfHash(Partition(file, last.channel),
                             history[2].attachments[1].img)) = 1
        /\ ~last.out[1].inserted

(* C2: in strict mode a non-empty match list makes the outcome VIOLATION
   whoever the authors are, and the reported match is matches[0], a match of
   minimum distance. *)
C2_StrictReportsClosest ==
    \A o \in Outcomes :
        (cfg.duplicate_check_mode = "strict" /\ o.matches # <<>>) =>
            /\ o.state = "VIOLATION"
            /\ o.report = o.matches[1]
            /\ \A j \in 1..Len(o.matches) : o.report.distance <= o.matches[j].distance

\* strict mode, two matches stored farthest first, the closest one by the poster
C2_Witness ==
    /\ last.op = "on_message" /\ cfg.duplicate_check_mode = "strict"
    /\ \E o \in Outcomes :
          /\ Len(o.matches) = 2
          /\ o.matches[1].distance < o.matches[2].distance
          /\ o.matches[1].identifier = MakeIdentifier(9, "a")
          /\ o.matches[1].original_user_id = Poster
          /\ o.state = "VIOLATION"

\* the matches whose author is unknown or is not the poster, in match order
ForeignMatches(o) ==
    SelectSeq(o.matches, LAMBDA m : m.original_user_id = None
                                     \/ m.original_user_id # Poster)

(* C3: in owner_allowed mode the outcome is UNIQUE iff every match's author
   is the poster; otherwise it is VIOLATION and the violating match is the
   first match in distance order whose author is unknown or differs. *)
C3_OwnerAllowed ==
    \A o \in Outcomes :
        (cfg.duplicate_check_mode = "owner_allowed" /\ o.hash # None) =>
            IF ForeignMatches(o) = <<>>
            THEN o.state = "UNIQUE" /\ o.report = NoMatch
            ELSE o.state = "VIOLATION" /\ o.report = ForeignMatches(o)[1]

\* owner_allowed: the closest match is the poster's own record, the next one
\* has no author, and the report names the second
C3_Witness ==
    /\ last.op = "on_message" /\ cfg.duplicate_check_mode = "owner_allowed"
    /\ \E o \in Outcomes :
          /\ Len(o.matches) = 2
          /\ o.matches[1].original_user_id = Poster
          /\ o.matches[2].original_user_id = None
          /\ o.state = "VIOLATION"
          /\ o.report = o.matches[2]

(* C4: a well-formed, in-scope, unexpired record is returned as a match iff
   its Hamming distance to the new fingerprint is <= similarity_threshold. *)
C4_ThresholdBoundary ==
    \A o \in Outcomes :
        o.hash # None =>
            \A e \in Entries(Partition(o.before, last.channel)) :
                (WellFormed(e) /\ Unexpired(e)) =>
                    (Matched(o, e) <=> DistanceTo(e, o.hash) <= cfg.similarity_threshold)

\* a record at distance exactly threshold is returned next to one at
\* threshold + 1 that is not, under a retention window
C4_Witness ==
    /\ last.op = "on_message" /\ cfg.duplicate_check_duration_days > 0
    /\ \E o \in Outcomes :
          \E e, f \in Entries(Partition(o.before, last.channel)) :
              /\ WellFormed(e) /\ Unexpired(e) /\ HasTimestamp(e)
              /\ WellFormed(f) /\ Unexpired(f) /\ HasTimestamp(f)
              /\ DistanceTo(e, o.hash) = cfg.similarity_threshold
              /\ DistanceTo(f, o.hash) = cfg.similarity_threshold + 1
              /\ Matched(o, e) /\ ~Matched(o, f)

\* the report repeats the key, the distance, the message id and the author of
\* one record of the partition the lookup read
ReportedRecord(o, ch) ==
    \E e \in Entries(Partition(o.before, ch)) :
        /\ o.report.identifier = e.identifier
        /\ WellFormed(e)
        /\ o.report.distance = DistanceTo(e, o.hash)
        /\ o.report.original_message_id = ParseMessageId(e.identifier)
        /\ o.report.original_user_id = e.hash_data.user_id

(* C6: a VIOLATION outcome leaves the store as it was for that image (nothing
   inserted, replaced or removed), and its report carries the identifier,
   distance, original message id and original author id of one stored record. *)
C6_ViolationLeavesStore ==
    /\ \A o \in Outcomes :
          o.state = "VIOLATION" =>
              /\ ~o.inserted
              /\ o.after = o.before
              /\ ReportedRecord(o, last.channel)
    /\ (Outcomes # {} /\ \A o \in Outcomes : o.state # "UNIQUE") =>
          (last.stored = last.loaded /\ file = last.loaded)

\* the second message is a near duplicate of the first, posted by somebody
\* else: the report names the record of the first message
C6_Witness ==
    /\ last.op = "on_message" /\ last.msg = 2
    /\ \E o \in Outcomes :
          /\ o.state = "VIOLATION"
          /\ o.report.original_message_id = 1
          /\ o.report.original_user_id # Poster
          /\ o.report.distance = 1
          /\ Len(Partition(o.before, last.channel)) > 0

\* the records of d at Hamming distance 0 from h
RecordsAtDistance0(d, h) ==
    SelectSeq(d, LAMBDA e : WellFormed(e) /\ DistanceTo(e, h) = 0)

(* C7: for a UNIQUE image with no distance-0 record in scope, the scope
   partition holds, once on_message has completed, a record keyed
   {message_id}-{filename} with the image's fingerprint and the poster's id;
   with a distance-0 record in scope the store is left unchanged. *)
C7_UniqueInsertsRecord ==
    \A o \in Outcomes :
        o.state = "UNIQUE" =>
            IF RecordsAtDistance0(Partition(o.before, last.channel), o.hash) = <<>>
            THEN \E e \in Entries(Partition(file, last.channel)) :
                    /\ e.identifier = MakeIdentifier(last.msg, o.filename)
                    /\ e.hash_data.hash = hash_to_hex(o.hash)
                    /\ e.hash_data.user_id = Poster
            ELSE o.after = o.before

(* C8: with retention_days > 0 the matcher excludes every record whose
   timestamp is older than now - retention_days and keeps the records that
   are not older; with retention_days = 0 no record is excluded for its age. *)
C8_RetentionWindow ==
    \A o \in Outcomes :
        o.hash # None =>
            \A e \in Entries(Partition(o.before, last.channel)) :
                LET d    == cfg.duplicate_check_duration_days
                    near == WellFormed(e)
                            /\ DistanceTo(e, o.hash) <= cfg.similarity_threshold
                IN  /\ (d > 0 /\ HasTimestamp(e) /\ e.hash_data.timestamp < Cutoff)
                          => ~Matched(o, e)
                    /\ (d > 0 /\ HasTimestamp(e) /\ e.hash_data.timestamp >= Cutoff /\ near)
                          => Matched(o, e)
                    /\ (d = 0 /\ near) => Matched(o, e)

-----------------------------------------------------------------------------
(* Properties of the store partitions *)

Keys(d) == {d[k].identifier : k \in 1..Len(d)}

\* the record was stored for a message of channel ch
InsertedUnder(identifier, ch) ==
    /\ ParseMessageId(identifier) \in 1..Len(history)
    /\ history[ParseMessageId(identifier)].channel_id_str = ch

\* a lookup for channel ch on document `stored` returned this identifier
ReturnedFrom(identifier, stored, ch) ==
    identifier \in Keys(stored[ch]) /\ InsertedUnder(identifier, ch)

\* the step from `before` to `after` changed the mapping of channel ch only
OnlyChanged(before, after, ch) ==
    \A k \in PartKeys \ {ch} : after[k] = before[k]

(* C5: in channel scope, whatever live ingestions, catch-ups and scans have
   run, the matcher and the existence probe return to a lookup for channel B
   only records inserted under B, and an insertion for B leaves every other
   channel's sub-mapping as it was. *)
C5_ScopeIsolation ==
    cfg.duplicate_scope = "channel" =>
        /\ \A ch \in Channels : \A id \in Keys(file[ch]) : InsertedUnder(id, ch)
        /\ file[RootKey] = <<>>
        /\ \A o \in Outcomes :
              /\ \A j \in 1..Len(o.matches) :
                    ReturnedFrom(o.matches[j].identifier, o.before, last.channel)
              /\ o.existing # NoEntry =>
                    ReturnedFrom(o.existing.identifier, o.before, last.channel)
              /\ OnlyChanged(o.before, o.after, last.channel)
        /\ last.op = "on_message" => OnlyChanged(last.loaded, file, last.channel)
        /\ last.op = "scan" =>
              /\ \A i \in 1..Len(last.out) :
                    /\ last.out[i].existing # NoEntry =>
                          ReturnedFrom(last.out[i].existing.identifier,
                                       last.out[i].before, last.channel)
                    /\ OnlyChanged(last.out[i].before, last.out[i].after, last.channel)
              /\ OnlyChanged(last.loaded, file, last.channel)
        /\ last.op = "on_ready" =>
              \A i \in 1..Len(last.out) :
                  /\ last.out[i].existing # NoEntry =>
                        ReturnedFrom(last.out[i].existing.identifier,
                                     last.out[i].before, last.out[i].channel)
                  /\ OnlyChanged(last.out[i].before, last.out[i].after,
                                 last.out[i].channel)

\* strict mode: a scan of channel c2 has stored an image of which channel c1
\* already held a record
C5_Witness ==
    /\ cfg.duplicate_scope = "channel" /\ cfg.duplicate_check_mode = "strict"
    /\ last.op = "scan" /\ last.channel = "c2"
    /\ \E i \in 1..Len(last.out) :
          /\ last.out[i].update_needed
          /\ last.out[i].before["c2"] = <<>>
          /\ \E e \in Entries(last.out[i].before["c1"]) :
                e.hash_data.hash = last.out[i].hash_str
    /\ file["c1"] # <<>> /\ file["c2"] # <<>>

-----------------------------------------------------------------------------
(* Properties of bulk reconciliation *)

ScanOutcomes == IF last.op = "scan" THEN {last.out[i] : i \in 1..Len(last.out)} ELSE {}

\* messages 1, 2 and 3 carry the same image, were posted at T1 < T2 < T3 by
\* three authors, and the scan that has just finished covered all of them
C9_Scanned ==
    /\ last.op = "scan" /\ last.msg >= 3 /\ Len(history) = 3
    /\ \A m \in 1..3 : OneImage(m) /\ history[m].channel_id_str = last.channel
    /\ \A m \in 2..3 : /\ history[m].attachments[1].img = history[1].attachments[1].img
                       /\ history[m - 1].created_at < history[m].created_at
    /\ Cardinality({history[m].author_id : m \in 1..3}) = 3

(* C9: after a scan over three messages that posted the same fingerprint at
   T1 < T2 < T3 under different authors, the store holds exactly one record
   of that fingerprint, keyed by and attributed to the T1 message, and in
   strict mode each later message is reported as a violation that references
   T1's identifier. *)
C9_OldestWins ==
    C9_Scanned =>
        LET recs == RecordsOfHash(Partition(file, last.channel),
                                  history[1].attachments[1].img)
        IN  /\ Len(recs) = 1
            /\ recs[1].identifier = MakeIdentifier(1, history[1].attachments[1].filename)
            /\ recs[1].hash_data.user_id = history[1].author_id
            /\ cfg.duplicate_check_mode = "strict" =>
                  \A m \in 2..3 : \E o \in ScanOutcomes :
                      /\ o.canonical_id
                            = MakeIdentifier(1, history[1].attachments[1].filename)
                      /\ \E k \in 1..Len(o.violations) : o.violations[k].msg_id = m

(* C10: for a scanned group whose fingerprint has a stored record, a strictly
   older scanned entry replaces it (old key removed, record keyed by the
   scanned entry inserted with the earlier timestamp); otherwise the store is
   left unchanged for the group and the stored record is the canonical one. *)
C10_Reconciliation ==
    \A o \in ScanOutcomes :
        (o.existing # NoEntry /\ HasTimestamp(o.existing)) =>
            LET oldest == o.entries[1]
                key    == MakeIdentifier(oldest.msg_id, oldest.filename)
                part   == Partition(o.after, last.channel)
            IN  IF oldest.timestamp < o.existing.hash_data.timestamp
                THEN /\ (o.existing.identifier # key =>
                            o.existing.identifier \notin Keys(part))
                     /\ \E e \in Entries(part) :
                           /\ e.identifier = key
                           /\ e.hash_data.hash = o.hash_str
                           /\ e.hash_data.timestamp = oldest.timestamp
                ELSE /\ o.after = o.before
                     /\ o.canonical_id = o.existing.identifier

\* the records of mapping d whose stored hash string is hash_str
RecordsOfHashStr(d, hash_str) == SelectSeq(d, LAMBDA e : e.hash_data.hash = hash_str)

(* C11: after a scan, for every fingerprint that occurred in the scanned
   window the scope partition holds at most one record with that exact hash,
   and that record is not younger than any scanned entry of the group, even
   when the store held several records of the hash before the scan. *)
C11_OneRecordPerHash ==
    \A o \in ScanOutcomes :
        LET recs == RecordsOfHashStr(Partition(file, last.channel), o.hash_str)
        IN  /\ Len(recs) <= 1
            /\ \A k \in 1..Len(recs) : \A j \in 1..Len(o.entries) :
                  HasTimestamp(recs[k]) =>
                      recs[k].hash_data.timestamp <= o.entries[j].timestamp

-----------------------------------------------------------------------------
(* Properties of what the store gains *)

\* mapping d holds, apart from the record under key `replaced`, a well-formed
\* unexpired record within similarity_threshold of h whose author is not `author`
ForeignNearRecord(d, h, author, replaced) ==
    \E e \in Entries(d) :
        /\ e.identifier # replaced
        /\ WellFormed(e) /\ Unexpired(e)
        /\ DistanceTo(e, h) <= cfg.similarity_threshold
        /\ e.hash_data.user_id # author

(* C12: whatever live ingestions, catch-ups and scans have run, no operation
   stores a record for an image that is within similarity_threshold of an
   already stored, unexpired record of a different author in the same scope
   (the record an older scanned entry replaces aside). *)
C12_OnlyAcceptedImagesStored ==
    /\ \A o \in Outcomes :
          o.inserted =>
              ~ForeignNearRecord(Partition(o.before, last.channel), o.hash, Poster,
                                 NoEntry.identifier)
    /\ \A o \in ScanOutcomes :
          o.update_needed =>
              ~ForeignNearRecord(Partition(o.before, last.channel),
                                 hex_to_hash(o.hash_str), o.entries[1].user_id,
                                 o.existing.identifier)
    /\ last.op = "on_ready" =>
          \A i \in 1..Len(last.out) :
              last.out[i].update_needed =>
                  ~ForeignNearRecord(Partition(last.out[i].before, last.out[i].channel),
                                     last.out[i].hash,
                                     history[last.out[i].msg_id].author_id,
                                     last.out[i].existing.identifier)

-----------------------------------------------------------------------------
(* Properties of the judgement of scanned entries *)

\* the canonical record of a scanned group: the stored record when it carries
\* a timestamp that is not later than the oldest scanned entry, else that entry
ScanCanonical(o) ==
    IF o.existing # NoEntry /\ HasTimestamp(o.existing)
       /\ ~(o.entries[1].timestamp < o.existing.hash_data.timestamp)
    THEN [identifier |-> o.existing.identifier,
          user_id    |-> o.existing.hash_data.user_id,
          timestamp  |-> o.existing.hash_data.timestamp]
    ELSE [identifier |-> MakeIdentifier(o.entries[1].msg_id, o.entries[1].filename),
          user_id    |-> o.entries[1].user_id,
          timestamp  |-> o.entries[1].timestamp]

\* the check_mode test of the live path, applied to one original author
LiveModeViolation(original_user_id, current_user_id) ==
    violating_match(<<[NoMatch EXCEPT !.original_user_id = original_user_id,
                                      !.distance = 0]>>,
                    cfg.duplicate_check_mode, current_user_id) # NoMatch

\* the entry was posted within the retention window of the canonical record
InScanWindow(e, c) ==
    \/ cfg.duplicate_check_duration_days = 0
    \/ Days(e.timestamp - c.timestamp) <= cfg.duplicate_check_duration_days

ScanReported(o, e) == \E k \in 1..Len(o.violations) : o.violations[k] = e

(* C13: during a scan every non-canonical entry of a group (posted within the
   retention window of the canonical record) is reported as a violation iff
   the live path's check_mode test says so against the canonical record
   (strict: always; owner_allowed: iff the canonical author is unknown or
   differs from the entry's author), and the scan stores no record for a
   non-canonical entry. *)
C13_ScanJudgesLikeLive ==
    \A o \in ScanOutcomes :
        LET c == ScanCanonical(o)
        IN  /\ \A j \in 1..Len(o.entries) :
                  LET e == o.entries[j]
                  IN  (e.msg_id # ParseMessageId(c.identifier) /\ InScanWindow(e, c)) =>
                          (ScanReported(o, e) <=> LiveModeViolation(c.user_id, e.user_id))
            /\ Keys(Partition(o.after, last.channel))
                   \ Keys(Partition(o.before, last.channel)) \subseteq {c.identifier}

-----------------------------------------------------------------------------
(* Properties of the matcher on records of mixed formats *)

\* the match the lookup returned for record e
MatchFor(o, e) == CHOOSE m \in {o.matches[j] : j \in 1..Len(o.matches)} :
                      m.identifier = e.identifier

(* C14: a bare hex-string record of a store that mixes both formats is
   returned as a match iff the distance computed from its string is within
   the threshold, its match carries that distance and an unknown author, and
   a lookup that returns it ends in VIOLATION in both check modes. *)
C14_LegacyRecordsMatch ==
    \A o \in Outcomes :
        o.hash # None =>
            \A e \in Entries(Partition(o.before, last.channel)) :
                (e.hash_data.kind = "str" /\ WellFormed(e)) =>
                    /\ Matched(o, e) <=> DistanceTo(e, o.hash) <= cfg.similarity_threshold
                    /\ Matched(o, e) =>
                          /\ MatchFor(o, e).distance = DistanceTo(e, o.hash)
                          /\ MatchFor(o, e).original_user_id = None
                          /\ o.state = "VIOLATION"

\* the record carries no timestamp: a bare string, or a structured record
\* without the 'timestamp' key
NoTimestamp(e) ==
    \/ e.hash_data.kind = "str"
    \/ e.hash_data.kind = "dict" /\ e.hash_data.timestamp = None

(* C15: under a retention window a record that carries no timestamp stays a
   match candidate (it is returned iff it is within the threshold), whether
   it is a bare hex string or a structured record without a timestamp. *)
C15_TimestamplessRecordsKept ==
    \A o \in Outcomes :
        (o.hash # None /\ cfg.duplicate_check_duration_days > 0) =>
            \A e \in Entries(Partition(o.before, last.channel)) :
                (WellFormed(e) /\ NoTimestamp(e)) =>
                    (Matched(o, e) <=> DistanceTo(e, o.hash) <= cfg.similarity_threshold)

\* document `stored` without the records whose hash cannot be read
WithoutCorrupt(stored) == [k \in PartKeys |-> SelectSeq(stored[k], WellFormed)]

(* C16: a lookup on a store that holds a record whose hash string cannot be
   decoded (or has a foreign shape or length) returns exactly the matches, and
   the existence probe exactly the record, that the store without that record
   yields: the corrupt record is skipped and no other record is dropped or
   misjudged. *)
C16_CorruptRecordSkipped ==
    \A o \in Outcomes :
        o.hash # None =>
            /\ o.matches = find_duplicates_sync(o.hash, WithoutCorrupt(o.before),
                                cfg.similarity_threshold, cfg.duplicate_scope,
                                last.channel, cfg.duplicate_check_duration_days)
            /\ variant # 1 =>
                  o.existing = find_existing_hash_entry_sync(o.hash,
                                   WithoutCorrupt(o.before), 0, cfg.duplicate_scope,
                                   last.channel)

\* the partition holds a corrupt record in front of a well-formed one, and the
\* lookup returned the well-formed records on both sides of it
C16_Witness ==
    /\ last.op = "on_message"
    /\ \E o \in Outcomes :
          LET d == Partition(o.before, last.channel)
          IN  /\ Len(d) = 3
              /\ ~WellFormed(d[2])
              /\ Matched(o, d[1]) /\ Matched(o, d[3])
              /\ Len(o.matches) = 2

-----------------------------------------------------------------------------
(* Properties of concurrent handlers and of the store document *)

\* the coroutine of message m is inside its read-modify-write cycle: it has
\* started to load the store and has not finished its decision and save
InCycle(m) == handlers[m].pc \in {"loading", "loaded", "matched", "tosave", "saving"}

(* C17: the load, decision and save of one on_message handler are never
   interleaved with those of another handler of the same server: at most one
   handler is inside its read-modify-write cycle at any time. *)
C17_HandlersSerialized ==
    Cardinality({m \in 1..Len(handlers) : InCycle(m)}) <= 1

\* the image of the one attachment of message m
ImageOf(m) == history[m].attachments[1].img

\* messages m and n carry images that are duplicates of each other without
\* being bit-identical
NearDuplicates(m, n) ==
    HashDistance(ImageOf(m), ImageOf(n)) \in 1..cfg.similarity_threshold

\* the persisted document holds the record of message m
Persisted(m) ==
    /\ ~torn
    /\ \E e \in Entries(Partition(file, history[m].channel_id_str)) :
          /\ e.identifier = MakeIdentifier(m, history[m].attachments[1].filename)
          /\ e.hash_data.hash = hash_to_hex(ImageOf(m))

\* no coroutine other than m and n has written, or is writing, the document
OnlyWriters(m, n) ==
    \A k \in 1..Len(handlers) \ {m, n} :
        handlers[k].pc # "saving" /\ handlers[k].success = "none"

\* a third coroutine stored the bit-identical image of message m, which is
\* what the existence probe of builds 2 to 4 finds
StoredByAnother(m) ==
    /\ variant # 1
    /\ \E k \in 1..Len(handlers) \ {m} :
          ImageOf(k) = ImageOf(m) /\ handlers[k].inserted

(* C18: two handlers of the same server and scope whose images are duplicates
   of each other and whose lookups both ran before either insertion each
   decide UNIQUE, neither is reported as a violation, and both insert (unless
   a third handler stored the bit-identical image first); when they hold the
   same dict and their saves succeed the store document then holds two
   records for the one duplicate pair.  (The interleaving itself is the
   reachable state C18_Witness.) *)
C18_BothDecideUnique ==
    \A m, n \in 1..Len(handlers) :
        (/\ m # n
         /\ handlers[m].pc = "done" /\ handlers[n].pc = "done"
         /\ handlers[m].matches = <<>> /\ handlers[n].matches = <<>>
         /\ NearDuplicates(m, n)) =>
            /\ handlers[m].state = "UNIQUE" /\ handlers[n].state = "UNIQUE"
            /\ handlers[m].inserted \/ StoredByAnother(m)
            /\ handlers[n].inserted \/ StoredByAnother(n)
            /\ (/\ handlers[m].ref = handlers[n].ref
                /\ handlers[m].inserted /\ handlers[n].inserted
                /\ handlers[m].success = "ok" /\ handlers[n].success = "ok"
                /\ OnlyWriters(m, n)) =>
                   (Persisted(m) /\ Persisted(n))

\* strict mode, two authors: both handlers have finished, each stored its
\* image as UNIQUE, and the document holds both records of the pair
C18_Witness ==
    /\ Len(handlers) = 2
    /\ cfg.duplicate_check_mode = "strict"
    /\ history[1].author_id # history[2].author_id
    /\ handlers[1].pc = "done" /\ handlers[2].pc = "done"
    /\ NearDuplicates(1, 2)
    /\ handlers[1].state = "UNIQUE" /\ handlers[2].state = "UNIQUE"
    /\ handlers[1].inserted /\ handlers[2].inserted
    /\ Persisted(1) /\ Persisted(2)
    /\ Len(Partition(file, "c1")) = 2

\* the coroutines of the followed guild whose file read or write is in progress
InFileIo == {m \in 1..Len(handlers) : handlers[m].pc \in {"loading", "saving"}}

(* C19: physical load and save of one server's store document are mutually
   exclusive under that server's lock: at most one file read or write of a
   server is in progress at any time and it runs under the server's lock, so
   no read is in progress while a save has the document partly written;
   operations of different servers may overlap. *)
C19_FileIoExclusive ==
    /\ \A g \in Guilds : io[g] <= 1 /\ (io[g] = 1 => ~LockFree(g))
    /\ Cardinality(InFileIo) <= 1
    /\ io[ThisGuild] = Cardinality(InFileIo)
    /\ \A m \in InFileIo : hash_file_locks[ThisGuild] = m
    /\ \A m \in 1..Len(handlers) :
          (handlers[m].pc = "loading" /\ torn) =>
              \A n \in 1..Len(handlers) : handlers[n].pc # "saving"

\* a save of the followed guild has the document truncated while another
\* handler waits for the lock to load, and the other guild's file operation
\* is in progress at the same time
C19_Witness ==
    /\ io[ThisGuild] = 1 /\ io[OtherGuild] = 1
    /\ torn
    /\ \E m, n \in 1..Len(handlers) :
          handlers[m].pc = "saving" /\ handlers[n].pc = "wait_load"

\* what a load returns for a document with the given content and state
ReadBack(content, unreadable) == IF unreadable THEN EmptyStore ELSE content

(* C20: save rewrites the store document atomically and reports failure as
   the value false: after a save that returns false the persisted document
   is exactly what it was before the save started, never truncated or
   partially written, so it reads back as it did before the save. *)
C20_FailedSaveLeavesDocument ==
    [][\A m \in 1..Len(handlers) :
          (/\ handlers[m].pc = "saving"
           /\ handlers'[m].pc = "done"
           /\ handlers'[m].success = "failed")
          => ReadBack(file', torn')
                 = ReadBack(handlers[m].file_before, handlers[m].torn_before)]_vars

-----------------------------------------------------------------------------
(* Properties of the write paths *)

\* every record of the persisted document, in whatever partition
PersistedRecords == UNION {Entries(file[k]) : k \in PartKeys}

\* the last handler changed the document in memory and saved it
SavedByLast ==
    /\ last.op \in {"on_message", "scan", "on_ready"}
    /\ last.stored # last.loaded
    /\ file = last.stored

(* C21: every write path emits only structured records: after a save by live
   ingestion, catch-up or scan every record of the persisted store document
   is a structured object (hash, author, timestamp), never a bare hex
   string. *)
C21_PersistedRecordsStructured ==
    SavedByLast => \A e \in PersistedRecords : e.hash_data.kind = "dict"

-----------------------------------------------------------------------------
(* Properties of the external actions and of error handling *)

\* the elements of a sequence
Range(seq) == {seq[i] : i \in 1..Len(seq)}

\* the last /scan acted on at least one violating entry
ScanActed ==
    /\ last.op = "scan"
    /\ \E i \in 1..Len(last.out) : last.out[i].violations # <<>>

(* C22: when a violation is handled, on the live path or in a scan, the
   failure of one external action on the message never prevents the other
   enabled actions from being attempted for that message: every enabled
   action is attempted whatever the platform answers. *)
C22_SiblingActionsAttempted ==
    /\ \A o \in Outcomes :
          o.state = "VIOLATION" => Range(o.attempted) = Range(LiveActionOrder)
    /\ ScanActed => Range(last.attempted) = last.options \cap Range(ScanActionOrder)

\* the hash groups the last /scan gathered
ScanGroups == Gather(<<>>, ChannelHistory(last.channel, last.msg, Len(history)))

\* the same /scan when the platform accepts every action
QuietScan ==
    ScanLoop([stored |-> last.loaded, db_updated |-> FALSE, out |-> <<>>,
              raised |-> FALSE], ScanGroups, last.channel, FALSE, 1)

\* an action of the last /scan on a violating entry failed
ScanActionFailed ==
    /\ ScanActed
    /\ \E a \in Range(last.attempted) : platform[a] # "ok"

(* C23: during a scan a failed external action on one entry never aborts the
   processing of the remaining hash groups: every group is reconciled as it
   is when no action fails, every group that has violating entries still has
   them acted on, and the scan reaches its final save of the store. *)
C23_FailedActionKeepsGroups ==
    ScanActionFailed =>
        LET quiet == QuietScan
        IN  /\ ~quiet.raised => Len(last.out) = Len(ScanGroups)
            /\ Len(last.out) = Len(quiet.out)
            /\ last.stored = quiet.stored
            /\ \A i \in 1..Len(last.out) :
                  /\ last.out[i].after = quiet.out[i].after
                  /\ quiet.out[i].violations # <<>> =>
                        /\ last.out[i].violations # <<>>
                        /\ last.out[i].violations[1] = quiet.out[i].violations[1]
            /\ (quiet.db_updated /\ ~quiet.raised) => file = quiet.stored

\* a refused reply ended the loop over the entries of the first group; the
\* second group was reconciled, its violating entry was acted on and the
\* changed store was saved
C23_Witness ==
    /\ ScanActionFailed
    /\ last.forbidden
    /\ Len(last.out) = 2
    /\ last.out[1].violations # <<>>
    /\ last.out[2].violations # <<>>
    /\ last.out[1].after # last.out[1].before
    /\ file = last.stored /\ file # last.loaded

(* C24: a single bad stored record (unparseable hash, unexpected shape, or an
   identifier that is not of the form <digits>-<filename>) never terminates
   a scan batch: every gathered hash group is still reconciled and the store
   is still saved when it changed. *)
C24_BadRecordKeepsBatch ==
    last.op = "scan" =>
        /\ Len(last.out) = Len(ScanGroups)
        /\ last.stored # last.loaded => file = last.stored

\* the attachments of the message the last on_message handled
LastAttachments == history[last.msg].attachments

\* the outcome is the one the matcher and the decision give for the image
\* against the store as the attachment found it
Decided(o) ==
    LET pool == hashes_to_check(o.before, cfg.duplicate_scope, last.channel)
        vm == violating_match(o.matches, cfg.duplicate_check_mode, Poster)
    IN  /\ \A j \in 1..Len(pool) :
              (/\ WellFormed(pool[j])
               /\ DistanceTo(pool[j], o.hash) <= cfg.similarity_threshold
               /\ Unexpired(pool[j]) /\ last.at = now) => Matched(o, pool[j])
        /\ \A j \in 1..Len(o.matches) :
              \E k \in 1..Len(pool) : pool[k].identifier = o.matches[j].identifier
        /\ o.report = vm
        /\ o.state = IF vm # NoMatch THEN "VIOLATION" ELSE "UNIQUE"

(* C25: when hashing or downloading one attachment fails, that attachment
   produces no violation and no store change, and every other image
   attachment of the same message is still hashed, matched and decided. *)
C25_FailedAttachmentSkipped ==
    last.op = "on_message" =>
        /\ Len(last.out) = Len(LastAttachments)
        /\ \A i \in 1..Len(last.out) :
              IF LastAttachments[i].img \in {BadImage, NoBytes}
              THEN /\ last.out[i].state = "SKIPPED"
                   /\ last.out[i].report = NoMatch
                   /\ last.out[i].attempted = <<>>
                   /\ ~last.out[i].inserted
                   /\ last.out[i].after = last.out[i].before
              ELSE /\ last.out[i].hash = LastAttachments[i].img
                   /\ Decided(last.out[i])

\* the first attachment of the message could not be hashed and the second was
\* found to be a violation; or the second could not be downloaded after the
\* first was stored
C25_Witness ==
    /\ last.op = "on_message"
    /\ Len(last.out) = 2
    /\ \/ /\ LastAttachments[1].img = BadImage
          /\ last.out[1].state = "SKIPPED"
          /\ last.out[2].state = "VIOLATION"
       \/ /\ LastAttachments[2].img = NoBytes
          /\ last.out[1].inserted
          /\ last.out[2].state = "SKIPPED"

-----------------------------------------------------------------------------
(* Properties of the configuration *)

\* a policy the engine can run under
ValidPolicy(conf) ==
    /\ InEnum("duplicate_scope", conf["duplicate_scope"])
    /\ InEnum("duplicate_check_mode", conf["duplicate_check_mode"])
    /\ variant # 1 =>
          /\ conf["duplicate_check_duration_days"].t = "int"
          /\ conf["duplicate_check_duration_days"].n >= 0

(* C26: whatever the configuration document holds, the policy that
   load_main_config, get_guild_config or save_guild_config leaves in the cache
   is valid: duplicate_scope is 'server' or 'channel', duplicate_check_mode is
   'strict' or 'owner_allowed' and duplicate_check_duration_days is an
   integer >= 0 *)
C26_CachedPolicyValid ==
    server_configs.known => ValidPolicy(server_configs.conf)

\* the field of the guild's policy; the default while the guild has none
PolicyField(sc, k) == IF sc.known THEN sc.conf[k] ELSE get_default_guild_config[k]

\* an unknown enum value or an out-of-range number
InvalidInput(k, v) ==
    CASE v.t = "str" -> k \notin NumberKeys /\ ~InEnum(k, v)
      [] v.t = "int" -> k \in NumberKeys /\ v.n < (IF k = "hash_size" THEN 4 ELSE 0)
      [] OTHER -> FALSE

(* C27: an invalid configuration input (an unknown enum value, an
   out-of-range number), typed in a command or found in the document, is
   rejected with a reason and the policy field keeps the value it had; it is
   never silently replaced by a different valid value *)
C27_InvalidInputRejected ==
    \A k \in ConfigKeys :
        get_default_guild_config[k] # Absent /\ InvalidInput(k, config_last.input[k]) =>
            /\ k \in config_last.reasons
            /\ PolicyField(server_configs, k) = PolicyField(config_last.before, k)

-----------------------------------------------------------------------------
(* Properties of the scan as a whole, of the record timestamps and of the
   user allowlist *)

\* the messages whose attachments the last /scan put into a hash group
ScannedMessages ==
    UNION {{last.out[i].entries[j].msg_id : j \in 1..Len(last.out[i].entries)} :
              i \in 1..Len(last.out)}

(* C28: every scan invocation examines at most `limit` messages of the
   channel and, whatever the history holds and however the individual actions
   end, terminates having reconciled every gathered hash group and having
   saved the store if it changed. *)
C28_ScanBoundedAndComplete ==
    last.op = "scan" =>
        /\ Cardinality(ScannedMessages) <= last.msg
        /\ \A m \in ScannedMessages : history[m].channel_id_str = last.channel
        /\ \A i \in 1..Len(ScanGroups) :
              /\ i <= Len(last.out)
              /\ last.out[i].hash_str = ScanGroups[i].hash_str
        /\ last.stored # last.loaded => file = last.stored

(* C29: every record written by any path (live ingestion, catch-up, scan)
   carries as its timestamp the creation time of the source message named in
   its identifier. *)
C29_TimestampIsCreationTime ==
    \A e \in PersistedRecords :
        ParseMessageId(e.identifier) \in 1..Len(history) =>
            e.hash_data.timestamp = history[ParseMessageId(e.identifier)].created_at

\* the author of message m is on the server's user allowlist
Allowlisted(m) == history[m].author_id \in cfg.allowed_users

\* live processing left the allowlisted message alone: nothing was matched,
\* reported or acted on, and no record names the message
LiveExempt ==
    (last.op = "on_message" /\ Allowlisted(last.msg)) =>
        /\ last.out = <<>>
        /\ last.stored = last.loaded
        /\ \A e \in PersistedRecords : ParseMessageId(e.identifier) # last.msg

\* scan reported no entry of an allowlisted author as a violation
ScanExempt ==
    last.op = "scan" =>
        \A i \in 1..Len(last.out) : \A j \in 1..Len(last.out[i].violations) :
            ~Allowlisted(last.out[i].violations[j].msg_id)

(* C30: an image posted by an author on the server's user allowlist is exempt
   on every path: it is never reported as a violation and never acted on
   (reply, react, delete, log) by live processing or by scan, and the live
   path neither matches nor inserts it. *)
C30_AllowlistedExempt == LiveExempt /\ ScanExempt

-----------------------------------------------------------------------------
(* Properties of repeated scans, of concurrent saves and of the retention
   window *)

\* the last /scan run once more over the same window, on the document as the
\* first run left it
ScanAgain ==
    ScanLoop([stored |-> file, db_updated |-> FALSE, out |-> <<>>, raised |-> FALSE],
             ScanGroups, last.channel, last.forbidden, 1)

\* the hash groups when the history yields the window oldest message first
RECURSIVE Reverse(_)
Reverse(seq) == IF seq = <<>> THEN <<>> ELSE Append(Reverse(Tail(seq)), Head(seq))

ScanGroupsReversed ==
    Gather(<<>>, Reverse(ChannelHistory(last.channel, last.msg, Len(history))))

ScanReversed ==
    ScanLoop([stored |-> last.loaded, db_updated |-> FALSE, out |-> <<>>,
              raised |-> FALSE], ScanGroupsReversed, last.channel, last.forbidden, 1)

(* C31: scan is idempotent on the store: a second scan over the same message
   window, with no change in between, leaves the store as the first scan left
   it, and every group gets the same canonical identifier whatever the order
   in which the history yields the messages. *)
C31_ScanIdempotent ==
    (last.op = "scan" /\ file = last.stored) =>
        /\ ScanAgain.stored = file
        /\ \A i \in 1..Len(last.out) : \A j \in 1..Len(ScanReversed.out) :
              last.out[i].hash_str = ScanReversed.out[j].hash_str =>
                  last.out[i].canonical_id = ScanReversed.out[j].canonical_id

\* messages m and n carry images that are not duplicates of each other
DifferentImages(m, n) ==
    HashDistance(ImageOf(m), ImageOf(n)) > cfg.similarity_threshold

(* C32: no lost update between concurrent ingestions: when two on_message
   handlers of the same server run concurrently, each inserts a record for a
   different unique image and both saves have succeeded, the persisted store
   document holds both records. *)
C32_NoLostUpdate ==
    \A m, n \in 1..Len(handlers) :
        (/\ m # n
         /\ DifferentImages(m, n)
         /\ handlers[m].pc = "done" /\ handlers[n].pc = "done"
         /\ handlers[m].state = "UNIQUE" /\ handlers[n].state = "UNIQUE"
         /\ handlers[m].inserted /\ handlers[n].inserted
         /\ handlers[m].success = "ok" /\ handlers[n].success = "ok"
         /\ OnlyWriters(m, n)) =>
            (Persisted(m) /\ Persisted(n))

\* the last handler accepted the one image of message m as UNIQUE
AcceptedUnique(l, m) ==
    /\ l.op = "on_message" /\ l.msg = m
    /\ Len(l.out) = 1
    /\ l.out[1].state = "UNIQUE"

\* message n repeats the one image of message m, posted by another author
\* inside the retention window
RepostInWindow(h, m, n) ==
    /\ Len(h) >= n
    /\ Len(h[m].attachments) = 1
    /\ h[n].attachments = h[m].attachments
    /\ h[m].attachments[1].img \in Images
    /\ h[n].author_id # h[m].author_id
    /\ h[n].created_at >= h[m].created_at
    /\ Days(h[n].created_at - h[m].created_at) <= cfg.duplicate_check_duration_days

(* C33: under a retention window (duplicate_check_duration_days > 0) and
   strict mode, when an image is posted and accepted as UNIQUE and an
   identical image is posted by another author inside the window, the second
   post is reported as a VIOLATION, also when the store still holds an older
   expired or timestamp-less record of the same fingerprint. *)
C33_RepostInWindowReported ==
    [][(/\ cfg.duplicate_check_duration_days > 0
        /\ cfg.duplicate_check_mode = "strict"
        /\ AcceptedUnique(last, 1)
        /\ last'.op = "on_message" /\ last'.msg = 2
        /\ RepostInWindow(history', 1, 2)) =>
           (/\ Len(last'.out) = 1
            /\ last'.out[1].state = "VIOLATION")]_vars

-----------------------------------------------------------------------------
(* Properties of messages with several attachments, of the policy lists and
   of the store cache *)

(* C34: a message is never reported as a duplicate of itself: for every
   violation of the live path the original message of the violating match is
   another message than the one being processed, also when one message
   carries several identical or near-identical attachments. *)
C34_NeverDuplicateOfItself ==
    last.op = "on_message" =>
        \A i \in 1..Len(last.out) :
            last.out[i].state = "VIOLATION" =>
                last.out[i].report.original_message_id # last.msg

\* every record of document d: the entries of all its partitions
AllRecords(d) == UNION {Entries(d[k]) : k \in PartKeys}

(* C35: inserting the record of a newly accepted image never overwrites or
   removes the record of a different image: every record the store held
   before the insertion is still there, and every image the handler accepted
   and inserted, two different images of one message under the same filename
   included, has its record in the store afterwards. *)
C35_InsertKeepsOtherRecords ==
    last.op = "on_message" =>
        \A i \in 1..Len(last.out) :
            last.out[i].inserted =>
                /\ AllRecords(last.out[i].before) \subseteq AllRecords(last.out[i].after)
                /\ \E e \in AllRecords(last.stored) :
                      e.hash_data.hash = hash_to_hex(last.out[i].hash)

-----------------------------------------------------------------------------
(* Properties of the policy setters, of the store cache and of scan's
   deletions and canonical records *)

ListSetters ==
    {"allowlist_add", "allowlist_remove", "config_channel_add", "config_channel_remove"}

\* the last command was a list setter that found a value to add or remove and
\* reported no save failure
SetterChangedList ==
    /\ config_last.op \in ListSetters
    /\ "no change" \notin config_last.reasons
    /\ "save failed" \notin config_last.reasons

\* C36: after allowlist_add, allowlist_remove, config_channel_add or
\* config_channel_remove completes for a value that changes the list, with no
\* save failure reported, the policy document on disk holds the same list as
\* the in-memory policy cache.
C36_SetterPersisted ==
    SetterChangedList =>
        /\ config_file.exists
        /\ config_file.doc[config_last.setting] = server_configs.conf[config_last.setting]

\* C37: store cache coherence.  Whenever no store operation is in progress,
\* the cached in-memory store (active_hash_databases), if present, has the
\* same content as the persisted store document; a failed save or an aborted
\* scan never leaves the cache differing from the file.
C37_CacheCoherent ==
    cache # NoCache => cache = file

\* the last live handler deleted its message as a duplicate
LiveDeleted ==
    /\ last.op = "on_message"
    /\ \E i \in 1..Len(last.out) : last.out[i].deleted

\* the document holds a record keyed by message m
StoredForMessage(d, m) ==
    \E k \in PartKeys : \E i \in 1..Len(d[k]) : d[k][i].identifier[1] = m

\* C38: when live processing deletes a message because one of its attachments
\* is a violation, no record keyed by that message's id is inserted or left in
\* the store by that run.
C38_DeletedMessageNotStored ==
    LiveDeleted => ~StoredForMessage(file, last.msg)

\* the partition of document d that a scan of the last scanned channel works on
ScanPartition(d) == hashes_to_check(d, cfg.duplicate_scope, last.channel)

HasKey(hashes, identifier) ==
    \E i \in 1..Len(hashes) : hashes[i].identifier = identifier

\* the canonical records of the groups in which the last scan reported a
\* violation: the log entry and the reply name the canonical identifier
ReportedCanonicals ==
    {last.out[i].canonical_id :
        i \in {j \in 1..Len(last.out) :
                  last.out[j].violations # <<>> /\ last.options \cap {"log", "reply"} # {}}}

\* C39: every violation reported by scan references a canonical identifier
\* that is the key of a record present in the scope partition of the store
\* when the scan finishes, and scan never acts on the message that holds that
\* canonical record.
C39_CanonicalRecordStored ==
    last.op = "scan" =>
        /\ \A c \in ReportedCanonicals : HasKey(ScanPartition(file), c)
        /\ \A i \in 1..Len(last.out) : \A j \in 1..Len(last.out[i].violations) :
              last.out[i].violations[j].msg_id # last.out[i].canonical_id[1]

====
